---- MODULE Spec2Model ----
(***************************************************************************)
(* Model of the Clinical Data Extractor extraction pipeline:               *)
(*   src/src/core/extraction_engine.py   ExtractionEngine                  *)
(*   src/src/utils/file_navigator.py     FileSystemNavigator               *)
(*   src/src/core/text_extractor.py      TextExtractor                     *)
(*   src/src/core/data_processor.py      DataProcessor                     *)
(*   src/src/utils/data_transformer.py   DataTransformer                   *)
(*                                                                         *)
(* Python strings are sequences of one-character strings.  An Optional     *)
(* value is a sequence of length at most one: None is <<>>, a value v is   *)
(* <<v>>.                                                                  *)
(***************************************************************************)
EXTENDS Integers, Sequences, FiniteSets, TLC

\* ------------------------------------------------------------------ bounds
MaxSubjects == 2       \* folders in the root directory of the concurrent runs
MaxWorkers == 2        \* largest configured worker limit
MaxListLen == 2        \* lines of the subject list file
MaxNameLen == 6        \* characters of a folder name handed to parse_folder_name
MaxVisits == 3         \* entries of a subject folder handed to _process_single_subject
MaxTextLen == 4        \* characters of a text handed to extract_with_pattern
MaxDigits == 2         \* digits before and after the point of an age string
MaxEntries == 2        \* entries of the root folder of the resolution runs
MaxRules == 2          \* rules of a rule set of the application runs
MaxPages == 3          \* pages of a PDF document handed to a single call
MaxTotal == 50         \* subjects of the long sequential runs (progress arithmetic)

\* ------------------------------------------------------- program constants
DefaultMaxWorkers == 4
ProgressLoad == 10
ProgressFind == 20
ProgressStart == 30
ProgressSpan == 50
ProgressAggregate == 90
ProgressDone == 100
MantissaBits == 53
LimbBits == 16
QuotientLimbCount == 4

\* ---------------------------------------------------------------- optionals
None == <<>>
Some(v) == <<v>>

\* ------------------------------------------------------------------ strings
Whitespace == {" ", "\n", "\t"}
Digits == {"0", "1", "2", "3", "4", "5", "6", "7", "8", "9"}

RECURSIVE LStrip(_)
LStrip(s) ==
    IF s # <<>> /\ Head(s) \in Whitespace THEN LStrip(Tail(s)) ELSE s

RECURSIVE RStrip(_)
RStrip(s) ==
    IF s # <<>> /\ s[Len(s)] \in Whitespace
    THEN RStrip(SubSeq(s, 1, Len(s) - 1))
    ELSE s

\* str.strip()
Strip(s) == RStrip(LStrip(s))

\* str.split() with no separator: the maximal runs of non-whitespace characters
RECURSIVE SplitWords(_, _, _)
SplitWords(s, word, acc) ==
    IF s = <<>>
    THEN IF word = <<>> THEN acc ELSE Append(acc, word)
    ELSE IF Head(s) \in Whitespace
         THEN SplitWords(Tail(s), <<>>, IF word = <<>> THEN acc ELSE Append(acc, word))
         ELSE SplitWords(Tail(s), Append(word, Head(s)), acc)

\* sep.join(parts)
RECURSIVE Join(_, _)
Join(sep, parts) ==
    IF parts = <<>> THEN <<>>
    ELSE IF Len(parts) = 1 THEN parts[1]
    ELSE parts[1] \o sep \o Join(sep, Tail(parts))

\* index of the first occurrence of character c in s, 0 when there is none
RECURSIVE FindChar(_, _, _)
FindChar(s, c, i) ==
    IF i > Len(s) THEN 0
    ELSE IF s[i] = c THEN i
    ELSE FindChar(s, c, i + 1)

\* str.isdigit()
IsDigit(s) == s # <<>> /\ \A i \in 1..Len(s) : s[i] \in Digits

\* str.lower() on the file suffixes of the model
Lower(suffix) ==
    CASE suffix = ".PDF" -> ".pdf"
      [] suffix = ".PNG" -> ".png"
      [] suffix = ".JPG" -> ".jpg"
      [] suffix = ".TXT" -> ".txt"
      [] OTHER -> suffix

\* the elements of a sequence, and a sequence filtered by a predicate on indices
Range(s) == {s[i] : i \in 1..Len(s)}

RECURSIVE SelectIdx(_, _, _)
SelectIdx(s, keep, i) ==
    IF i > Len(s) THEN <<>>
    ELSE (IF i \in keep THEN <<s[i]>> ELSE <<>>) \o SelectIdx(s, keep, i + 1)

\* --------------------------------------------------- FileSystemNavigator
\* variant: the rest of the name is stripped and its inner whitespace is kept
parse_folder_name_unspaced(folder_name) ==
    LET u == FindChar(folder_name, "_", 1) IN
    IF u > 0
    THEN << Strip(SubSeq(folder_name, 1, u - 1)),
            Strip(SubSeq(folder_name, u + 1, Len(folder_name))) >>
    ELSE << Strip(folder_name), <<>> >>

\* parse_folder_name: <<subject_id, patient_name>>
parse_folder_name(folder_name) ==
    LET u == FindChar(folder_name, "_", 1) IN
    IF u > 0
    THEN << Strip(SubSeq(folder_name, 1, u - 1)),
            Join(<<" ">>, SplitWords(SubSeq(folder_name, u + 1, Len(folder_name)), <<>>, <<>>)) >>
    ELSE << Strip(folder_name), <<>> >>

\* load_subject_list on a readable file: stripped non-blank lines, in order
LoadLines(lines) ==
    LET stripped == [i \in 1..Len(lines) |-> Strip(lines[i])]
    IN SelectIdx(stripped, {i \in 1..Len(lines) : stripped[i] # <<>>}, 1)

\* get_subject_folders on an existing, listable root: one triple per directory
\* entry whose parsed id is requested, in listing order
SubjectFoldersOf(entries, subject_list) ==
    LET triple(i) == [subject_id |-> parse_folder_name(entries[i].name)[1],
                      patient_name |-> parse_folder_name(entries[i].name)[2],
                      folder_path |-> entries[i].name,
                      content |-> entries[i].content]
        keep == {i \in 1..Len(entries) :
                    /\ entries[i].is_dir
                    /\ triple(i).subject_id # <<>>
                    /\ triple(i).subject_id \in Range(subject_list)}
    IN SelectIdx([i \in 1..Len(entries) |-> triple(i)], keep, 1)

\* variant: every directory entry is taken, requested or not
get_all_folders(root, subject_list) ==
    IF ~root.exists THEN <<>>
    ELSE SubjectFoldersOf(root.entries,
                          [i \in 1..Len(root.entries) |-> parse_folder_name(root.entries[i].name)[1]])

get_subject_folders(root, subject_list) ==
    IF ~root.exists THEN <<>> ELSE SubjectFoldersOf(root.entries, subject_list)

\* variant: the paths are returned from the last entry of the listing to the first
find_target_files_backwards(folder, target_filename) ==
    LET visits == folder.content.visits
        keep == {i \in 1..Len(visits) :
                    /\ visits[Len(visits) + 1 - i].is_dir
                    /\ IsDigit(visits[Len(visits) + 1 - i].name)
                    /\ visits[Len(visits) + 1 - i].file # None}
    IN SelectIdx([i \in 1..Len(visits) |->
                    [folder |-> folder.folder_path, visit |-> visits[Len(visits) + 1 - i].name,
                     filename |-> target_filename]],
                 keep, 1)

\* find_target_files on a listable subject folder: the path of the target file
\* in every digit-named sub-directory that holds one, in listing order
find_target_files(folder, target_filename) ==
    LET visits == folder.content.visits
        keep == {i \in 1..Len(visits) :
                    /\ visits[i].is_dir
                    /\ IsDigit(visits[i].name)
                    /\ visits[i].file # None}
    IN SelectIdx([i \in 1..Len(visits) |->
                    [folder |-> folder.folder_path, visit |-> visits[i].name,
                     filename |-> target_filename]],
                 keep, 1)

\* the file a path returned by find_target_files names
FileAt(folder, path) ==
    LET visits == folder.content.visits
        i == CHOOSE j \in 1..Len(visits) : visits[j].name = path.visit
    IN visits[i].file[1]

ImageFormats == {".jpg", ".jpeg", ".png", ".tiff", ".bmp", ".gif"}
PdfFormats == {".pdf"}

\* variant: a file of any other extension is taken for a PDF document
get_file_type_or_pdf(target_filename) ==
    IF Lower(target_filename.suffix) \in ImageFormats THEN "image" ELSE "pdf"

get_file_type(target_filename) ==
    LET ext == Lower(target_filename.suffix) IN
    IF ext \in ImageFormats THEN "image"
    ELSE IF ext \in PdfFormats THEN "pdf"
    ELSE "unknown"

\* ------------------------------------------------------------ TextExtractor
\* _extract_from_pdf, lines 199-204: the texts of the pages that are not blank
RECURSIVE text_content(_)
text_content(pages) ==
    IF pages = <<>> THEN <<>>
    ELSE (IF Strip(Head(pages)) # <<>> THEN <<Head(pages)>> ELSE <<>>)
         \o text_content(Tail(pages))

\* _extract_from_pdf: the non-blank pages joined by newlines, stripped; None
\* when the document cannot be opened
extract_from_pdf(file) ==
    IF ~file.readable THEN None
    ELSE LET full_text == Join(<<"\n">>, text_content(file.pages))
         IN IF full_text # <<>> THEN Some(Strip(full_text)) ELSE None

\* variant: every page is kept and the text is returned as it is
pdf_fallback_unfiltered(file) ==
    IF ~file.readable THEN None
    ELSE LET full_text == Join(<<"\n">>, file.pages)
         IN IF full_text # <<>> THEN Some(full_text) ELSE None

\* ExtractionEngine._extract_pdf_fallback, lines 279-301
extract_pdf_fallback(file) ==
    IF ~file.readable THEN None
    ELSE LET kept == {i \in 1..Len(file.pages) : Strip(file.pages[i]) # <<>>}
             full_text == Join(<<"\n">>, SelectIdx(file.pages, kept, 1))
         IN IF full_text # <<>> THEN Some(Strip(full_text)) ELSE None

\* _extract_from_image: the OCR output of the image (its one page), stripped
extract_from_image(file) ==
    IF ~file.readable THEN None
    ELSE LET text == IF file.pages = <<>> THEN <<>> ELSE file.pages[1]
         IN IF text # <<>> THEN Some(Strip(text)) ELSE None

extract_text(file, file_type) ==
    IF file_type = "image" THEN extract_from_image(file)
    ELSE IF file_type = "pdf" THEN extract_from_pdf(file)
    ELSE None

\* --------------------------------------------------------- ExtractionEngine
\* `if extracted_text:` on an Optional[str]
Truthy(opt) == opt # None /\ opt[1] # <<>>

ListdirError == "[Errno 13] Permission denied"

\* variant: a subject without a target file is reported without an error
process_subject_unreported(folder, target_filename, tesseract_available, text_extractor) ==
    LET result == [subject_id |-> folder.subject_id,
                   patient_name |-> folder.patient_name,
                   file_path |-> None,
                   extracted_text |-> None,
                   extraction_status |-> "Failed",
                   error |-> None]
        target_files == find_target_files(folder, target_filename)
        file_type == get_file_type(target_files[1].filename)
        extracted_text == extract_text(FileAt(folder, target_files[1]), file_type)
    IN IF ~folder.content.listable \/ target_files = <<>>
       THEN result
       ELSE IF file_type = "unknown" \/ ~tesseract_available \/ ~Truthy(extracted_text)
       THEN [result EXCEPT !.file_path = Some(target_files[1]),
                           !.error = Some("Failed to extract text from file")]
       ELSE [result EXCEPT !.file_path = Some(target_files[1]),
                           !.extracted_text = extracted_text,
                           !.extraction_status = "Success"]

\* variant: the availability of the OCR engine is not looked at
process_subject_unchecked(folder, target_filename, tesseract_available, text_extractor) ==
    LET result == [subject_id |-> folder.subject_id,
                   patient_name |-> folder.patient_name,
                   file_path |-> None,
                   extracted_text |-> None,
                   extraction_status |-> "Failed",
                   error |-> None]
        target_files == find_target_files(folder, target_filename)
        located == [result EXCEPT !.file_path = Some(target_files[1])]
        file_type == get_file_type(target_files[1].filename)
        extracted_text == IF text_extractor # None
                          THEN extract_text(FileAt(folder, target_files[1]), file_type)
                          ELSE IF file_type = "pdf"
                          THEN extract_pdf_fallback(FileAt(folder, target_files[1]))
                          ELSE None
    IN IF ~folder.content.listable
       THEN [result EXCEPT !.error = Some(ListdirError)]
       ELSE IF target_files = <<>>
       THEN [result EXCEPT !.error = Some("Target file not found")]
       ELSE IF file_type = "unknown"
       THEN [located EXCEPT !.error = Some("Unsupported file type")]
       ELSE IF Truthy(extracted_text)
       THEN [located EXCEPT !.extracted_text = extracted_text,
                            !.extraction_status = "Success"]
       ELSE [located EXCEPT !.error = Some("Failed to extract text from file")]

\* _process_single_subject: the record of one subject folder
\* (file_path: None stands for the initial '', Some(p) for a located path)
process_single_subject(folder, target_filename, tesseract_available, text_extractor) ==
    LET result == [subject_id |-> folder.subject_id,
                   patient_name |-> folder.patient_name,
                   file_path |-> None,
                   extracted_text |-> None,
                   extraction_status |-> "Failed",
                   error |-> None]
        target_files == find_target_files(folder, target_filename)
        target_file == target_files[1]
        located == [result EXCEPT !.file_path = Some(target_file)]
        file_type == get_file_type(target_file.filename)
        file == FileAt(folder, target_file)
        extracted_text ==
            IF file_type = "image" /\ text_extractor # None
            THEN extract_text(file, file_type)
            ELSE IF file_type = "pdf"
            THEN IF text_extractor # None
                 THEN extract_text(file, file_type)
                 ELSE extract_pdf_fallback(file)
            ELSE None
    IN IF ~folder.content.listable
       THEN [result EXCEPT !.error = Some(ListdirError)]
       ELSE IF target_files = <<>>
       THEN [result EXCEPT !.error = Some("Target file not found")]
       ELSE IF file_type = "unknown"
       THEN [located EXCEPT !.error = Some("Unsupported file type")]
       ELSE IF file_type = "image" /\ ~tesseract_available
       THEN [located EXCEPT !.error = Some("Tesseract OCR not available for image text extraction")]
       ELSE IF Truthy(extracted_text)
       THEN [located EXCEPT !.extracted_text = extracted_text,
                            !.extraction_status = "Success"]
       ELSE [located EXCEPT !.error = Some("Failed to extract text from file")]

\* _process_single_subject, lines 221-247: the paths it hands to
\* text_extractor.extract_text as images
ocr_invocations(folder, target_filename, tesseract_available, text_extractor) ==
    LET target_files == find_target_files(folder, target_filename) IN
    IF ~folder.content.listable \/ target_files = <<>> THEN {}
    ELSE IF get_file_type(target_files[1].filename) # "image" THEN {}
    ELSE IF ~tesseract_available THEN {}
    ELSE IF text_extractor # None THEN {target_files[1]}
    ELSE {}

\* _process_single_subject, lines 244-254: the paths it hands to a text
\* extraction backend (text_extractor.extract_text or _extract_pdf_fallback)
files_read(folder, target_filename, tesseract_available, text_extractor) ==
    LET target_files == find_target_files(folder, target_filename) IN
    IF ~folder.content.listable \/ target_files = <<>> THEN {}
    ELSE IF get_file_type(target_files[1].filename) = "unknown" THEN {}
    ELSE IF get_file_type(target_files[1].filename) = "pdf" THEN {target_files[1]}
    ELSE IF tesseract_available /\ text_extractor # None THEN {target_files[1]}
    ELSE {}

\* the record _process_subjects builds when handling a completion raises
error_result(subject_id, patient_name, message) ==
    [subject_id |-> subject_id,
     patient_name |-> patient_name,
     file_path |-> None,
     extracted_text |-> None,
     extraction_status |-> "Failed",
     error |-> Some(message)]

\* extract_data, lines 125-128: `value and str(value).strip()` for one key of a
\* raw record
ValueCounts(item, key) ==
    CASE key = "patient_name" -> item.patient_name # <<>> /\ Strip(item.patient_name) # <<>>
      [] key = "file_path" -> item.file_path # None
      [] key = "extracted_text" -> Truthy(item.extracted_text) /\ Strip(item.extracted_text[1]) # <<>>
      [] key = "extraction_status" -> TRUE
      [] key = "error" -> item.error # None /\ item.error[1] # ""
      [] OTHER -> item.subject_id # <<>> /\ Strip(item.subject_id) # <<>>

has_extracted_data(item) ==
    \E key \in DOMAIN item : key \notin {"subject_id", "name"} /\ ValueCounts(item, key)

RECURSIVE CountSuccessful(_)
CountSuccessful(extraction_data) ==
    IF extraction_data = <<>> THEN 0
    ELSE (IF has_extracted_data(Head(extraction_data)) THEN 1 ELSE 0)
         + CountSuccessful(Tail(extraction_data))

\* ---------------------------------------------------------- DataTransformer
\* the result of a call that may raise: a returned value or an exception
Return(v) == [raised |-> None, value |-> v]
Raise(e) == [raised |-> Some(e), value |-> None]

\* A pattern of the model is [kind, ch]:
\*   "invalid"   does not compile (re.error)
\*   "empty"     the empty pattern
\*   "plain"     the regular expression  ch       (no capture group)
\*   "capture"   the regular expression  ch(.)    (one capture group)
\*   "optional"  the regular expression  ch(.)?   (a group that may not take part)
\*   "rest"      the regular expression  ch(.*)   (the rest of the line)
\* matched with re.IGNORECASE | re.MULTILINE.
LowerLetters == <<"a", "b", "c", "d", "e", "f", "g", "h", "i", "j", "k", "l", "m",
                  "n", "o", "p", "q", "r", "s", "t", "u", "v", "w", "x", "y", "z">>
UpperLetters == <<"A", "B", "C", "D", "E", "F", "G", "H", "I", "J", "K", "L", "M",
                  "N", "O", "P", "Q", "R", "S", "T", "U", "V", "W", "X", "Y", "Z">>

LowerChar(c) ==
    IF \E k \in 1..Len(UpperLetters) : UpperLetters[k] = c
    THEN LowerLetters[CHOOSE k \in 1..Len(UpperLetters) : UpperLetters[k] = c]
    ELSE c

UpperChar(c) ==
    IF \E k \in 1..Len(LowerLetters) : LowerLetters[k] = c
    THEN UpperLetters[CHOOSE k \in 1..Len(LowerLetters) : LowerLetters[k] = c]
    ELSE c

\* str.upper()
Upper(s) == [i \in 1..Len(s) |-> UpperChar(s[i])]

\* the characters from position i up to the end of the line
RECURSIVE RestOfLine(_, _)
RestOfLine(text, i) ==
    IF i > Len(text) \/ text[i] = "\n" THEN <<>>
    ELSE <<text[i]>> \o RestOfLine(text, i + 1)

\* re.search: the leftmost match, as [matched, groups]; a group that did not
\* take part in the match is None
RECURSIVE Search(_, _, _)
Search(text, pattern, i) ==
    IF pattern.kind = "empty" THEN [matched |-> TRUE, groups |-> <<>>]
    ELSE IF i > Len(text) THEN [matched |-> FALSE, groups |-> <<>>]
    ELSE IF LowerChar(text[i]) # LowerChar(pattern.ch) THEN Search(text, pattern, i + 1)
    ELSE IF pattern.kind = "plain" THEN [matched |-> TRUE, groups |-> <<>>]
    ELSE IF pattern.kind = "rest"
         THEN [matched |-> TRUE, groups |-> << Some(RestOfLine(text, i + 1)) >>]
    ELSE IF i + 1 <= Len(text) /\ text[i + 1] # "\n"
         THEN [matched |-> TRUE, groups |-> << Some(<<text[i + 1]>>) >>]
    ELSE IF pattern.kind = "optional" THEN [matched |-> TRUE, groups |-> << None >>]
    ELSE Search(text, pattern, i + 1)

\* extract_with_pattern: only re.error is caught; match.group(1) is None for a
\* group that did not take part, and None.strip() raises AttributeError
extract_with_pattern(text, pattern) ==
    IF pattern.kind = "invalid" THEN Return(None)
    ELSE LET match == Search(text, pattern, 1)
         IN IF match.matched /\ match.groups # <<>>
            THEN IF match.groups[1] = None
                 THEN Raise("AttributeError")
                 ELSE Return(Some(Strip(match.groups[1][1])))
            ELSE Return(None)

DigitChars == <<"0", "1", "2", "3", "4", "5", "6", "7", "8", "9">>
DigitValue(c) == (CHOOSE k \in 1..Len(DigitChars) : DigitChars[k] = c) - 1

RECURSIVE DecimalValue(_)
DecimalValue(digits) ==
    IF digits = <<>> THEN 0
    ELSE 10 * DecimalValue(SubSeq(digits, 1, Len(digits) - 1)) + DigitValue(digits[Len(digits)])

RECURSIVE Pow10(_)
Pow10(n) == IF n = 0 THEN 1 ELSE 10 * Pow10(n - 1)

AllDigits(s) == \A i \in 1..Len(s) : s[i] \in Digits

\* float(s) of a stripped string without exponent part and without
\* underscores: "error" is ValueError; a finite value is
\* (neg ? -1 : 1) * num / 10^scale. For the short decimals of the model the
\* nearest double lies on the same side of every n + 0.5 as the decimal itself.
Unsigned(s) == IF s # <<>> /\ s[1] \in {"+", "-"} THEN Tail(s) ELSE s

WholeDigits(body, dot) == IF dot = 0 THEN body ELSE SubSeq(body, 1, dot - 1)

FracDigits(body, dot) == IF dot = 0 THEN <<>> ELSE SubSeq(body, dot + 1, Len(body))

FloatOf(neg, word, whole, frac) ==
    IF word \in {<<"i", "n", "f">>, <<"i", "n", "f", "i", "n", "i", "t", "y">>}
    THEN [kind |-> "inf", neg |-> neg, num |-> 0, scale |-> 0]
    ELSE IF word = <<"n", "a", "n">>
    THEN [kind |-> "nan", neg |-> neg, num |-> 0, scale |-> 0]
    ELSE IF AllDigits(whole) /\ AllDigits(frac) /\ whole \o frac # <<>>
    THEN [kind |-> "finite", neg |-> neg, num |-> DecimalValue(whole \o frac),
          scale |-> Len(frac)]
    ELSE [kind |-> "error", neg |-> FALSE, num |-> 0, scale |-> 0]

ParseUnsigned(neg, body, dot) ==
    FloatOf(neg, [i \in 1..Len(body) |-> LowerChar(body[i])], WholeDigits(body, dot), FracDigits(body, dot))

ParseFloat(s) ==
    ParseUnsigned(s # <<>> /\ s[1] = "-", Unsigned(s), FindChar(Unsigned(s), ".", 1))

\* round_age, lines 46-52: int(age_float), plus one when
\* age_float - int(age_float) > 0.50; int(inf) raises OverflowError, int(nan)
\* raises ValueError
round_float(age_float, unit) ==
    IF age_float.kind \in {"error", "nan"} THEN Return(None)
    ELSE IF age_float.kind = "inf" THEN Raise("OverflowError")
    ELSE IF ~age_float.neg /\ 2 * (age_float.num % unit) > unit
    THEN Return(Some((age_float.num \div unit) + 1))
    ELSE IF age_float.neg THEN Return(Some(0 - (age_float.num \div unit)))
    ELSE Return(Some(age_float.num \div unit))

round_scaled(age_float) == round_float(age_float, Pow10(age_float.scale))

\* round_age: ValueError and TypeError are caught (a string that is no float,
\* int(nan)); OverflowError is not
round_age(age_str) == round_scaled(ParseFloat(Strip(age_str)))

female_terms == { <<"B", "A", "Y", "A", "N">>, <<"K">>, <<"K", "A", "D", "I", "N">>, <<"F">>,
                  <<"F", "E", "M", "A", "L", "E">> }
male_terms == { <<"B", "A", "Y">>, <<"E">>, <<"E", "R", "K", "E", "K">>, <<"M">>,
                <<"M", "A", "L", "E">> }

\* variant: the token is compared as it is written
map_gender_exact_case(gender_str) ==
    IF Strip(gender_str) \in female_terms THEN <<"F", "e", "m", "a", "l", "e">>
    ELSE IF Strip(gender_str) \in male_terms THEN <<"M", "a", "l", "e">>
    ELSE Strip(gender_str)

map_turkish_gender(gender_str) ==
    LET gender_clean == Upper(Strip(gender_str)) IN
    IF gender_clean \in female_terms THEN <<"F", "e", "m", "a", "l", "e">>
    ELSE IF gender_clean \in male_terms THEN <<"M", "a", "l", "e">>
    ELSE Strip(gender_str)

\* ------------------------------------------------------------ DataProcessor
\* A processed record is a dict in insertion order: a sequence of <<key, value>>.
\* Cell values are [kind |-> "str", v |-> text], [kind |-> "int", v |-> n],
\* [kind |-> "None"] and, for a key a row does not have, [kind |-> "NaN"].
StrCell(v) == [kind |-> "str", v |-> v]
IntCell(n) == [kind |-> "int", v |-> n]
NoneCell == [kind |-> "None"]
NaNCell == [kind |-> "NaN"]

\* transform_value on an extracted string: the cell, or the exception of round_age
transform_value(value, transform_type) ==
    IF transform_type = "age_round"
    THEN LET age == round_age(value)
         IN IF age.raised # None THEN age
            ELSE Return(IF age.value = None THEN NoneCell ELSE IntCell(age.value[1]))
    ELSE IF transform_type = "gender_turkish" THEN Return(StrCell(map_turkish_gender(value)))
    ELSE IF transform_type = "none" \/ transform_type = "" THEN Return(StrCell(Strip(value)))
    ELSE Return(StrCell(value))

DictKeys(d) == [i \in 1..Len(d) |-> d[i][1]]

DictSet(d, key, value) ==
    IF \E i \in 1..Len(d) : d[i][1] = key
    THEN [i \in 1..Len(d) |-> IF d[i][1] = key THEN <<key, value>> ELSE d[i]]
    ELSE Append(d, <<key, value>>)

DictGet(d, key) ==
    IF \E i \in 1..Len(d) : d[i][1] = key
    THEN d[CHOOSE i \in 1..Len(d) : d[i][1] = key][2]
    ELSE NaNCell

\* lines 43-63: the rules applied to one record that has text; an exception of
\* extract_with_pattern or transform_value ends the loop
RECURSIVE ApplyRules(_, _, _)
ApplyRules(processed_record, text, rules) ==
    IF rules = <<>> THEN Return(processed_record)
    ELSE LET rule == Head(rules)
             raw_value == extract_with_pattern(text, rule.pattern)
             processed_value == transform_value(raw_value.value[1], rule.transform)
         IN IF rule.name = "" \/ rule.pattern.kind = "empty"
            THEN ApplyRules(processed_record, text, Tail(rules))
            ELSE IF raw_value.raised # None THEN raw_value
            ELSE IF raw_value.value = None
            THEN ApplyRules(DictSet(processed_record, rule.name, NoneCell), text, Tail(rules))
            ELSE IF processed_value.raised # None THEN processed_value
            ELSE ApplyRules(DictSet(processed_record, rule.name, processed_value.value),
                            text, Tail(rules))

\* lines 35-65: the processed record of one raw record
process_record(record, rules) ==
    LET processed_record == << <<"Subject ID", StrCell(record.subject_id)>>,
                               <<"Name", StrCell(record.patient_name)>> >>
    IN IF Truthy(record.extracted_text)
       THEN ApplyRules(processed_record, record.extracted_text[1], rules)
       ELSE Return(processed_record)

\* the keys of a list of dicts, in order of first appearance
RECURSIVE UnionKeys(_, _)
UnionKeys(dicts, acc) ==
    IF dicts = <<>> THEN acc
    ELSE LET keys == DictKeys(Head(dicts))
             fresh == SelectIdx(keys, {i \in 1..Len(keys) : keys[i] \notin Range(acc)}, 1)
         IN UnionKeys(Tail(dicts), acc \o fresh)

\* process_extracted_data: pd.DataFrame(processed_data) as [columns, rows], or
\* the exception of the first record whose processing raises
process_extracted_data(raw_data, rules) ==
    LET processed == [i \in 1..Len(raw_data) |-> process_record(raw_data[i], rules)]
        raising == {i \in 1..Len(raw_data) : processed[i].raised # None}
        processed_data == [i \in 1..Len(raw_data) |-> processed[i].value]
        columns == UnionKeys(processed_data, <<>>)
    IN IF raising # {}
       THEN processed[CHOOSE i \in raising : \A j \in raising : i <= j]
       ELSE Return([columns |-> columns,
                    rows |-> [i \in 1..Len(raw_data) |->
                                [c \in 1..Len(columns) |-> DictGet(processed_data[i], columns[c])]]])

\* ------------------------------------------------- double-precision floats
\* Natural numbers wider than the model checker's integers are sequences of
\* LimbBits-bit limbs, least significant first, without leading zero limbs.
\* A positive double is [mant, exp]: mant is its MantissaBits-bit significand and
\* its value is mant * 2^exp.
Pow2Table == <<1, 2, 4, 8, 16, 32, 64, 128, 256, 512, 1024, 2048, 4096, 8192,
               16384, 32768, 65536>>
Pow2(n) == Pow2Table[n + 1]
Base == Pow2(LimbBits)

RECURSIVE BigToInt(_)
BigToInt(x) == IF x = <<>> THEN 0 ELSE Head(x) + Base * BigToInt(Tail(x))

RECURSIVE Normalize(_)
Normalize(x) ==
    IF x # <<>> /\ x[Len(x)] = 0 THEN Normalize(SubSeq(x, 1, Len(x) - 1)) ELSE x

\* x * c + carry for small non-negative integers c and carry
RECURSIVE MulAdd(_, _, _)
MulAdd(x, c, carry) ==
    IF x = <<>>
    THEN IF carry = 0 THEN <<>> ELSE <<carry % Base>> \o MulAdd(<<>>, c, carry \div Base)
    ELSE LET t == Head(x) * c + carry
         IN <<t % Base>> \o MulAdd(Tail(x), c, t \div Base)

\* the number of bits of a limb, and of a number
RECURSIVE LimbLength(_)
LimbLength(v) == IF v = 0 THEN 0 ELSE 1 + LimbLength(v \div 2)

BitLength(x) == IF x = <<>> THEN 0 ELSE LimbBits * (Len(x) - 1) + LimbLength(x[Len(x)])

\* bit j of x, counting from 0
Bit(x, j) ==
    IF j \div LimbBits + 1 > Len(x) THEN 0
    ELSE (x[j \div LimbBits + 1] \div Pow2(j % LimbBits)) % 2

\* x mod 2^d # 0
LowBitsSet(x, d) ==
    \/ \E i \in 1..Len(x) : i <= d \div LimbBits /\ x[i] # 0
    \/ d \div LimbBits + 1 <= Len(x) /\ x[d \div LimbBits + 1] % Pow2(d % LimbBits) # 0

\* x div 2^d
ShiftRight(x, d) ==
    LET whole == d \div LimbBits
        part == d % LimbBits
        y == IF whole >= Len(x) THEN <<>> ELSE SubSeq(x, whole + 1, Len(x))
    IN Normalize([i \in 1..Len(y) |->
                    y[i] \div Pow2(part)
                    + (IF i < Len(y) THEN (y[i + 1] % Pow2(part)) * Pow2(LimbBits - part) ELSE 0)])

\* round-to-nearest-even of (x + a fraction that is non-zero iff sticky) * 2^-d
\* to MantissaBits bits, where x has MantissaBits + d bits and d >= 1:
\* [mant, shift] with the value mant * 2^(shift - d)
RoundNearestEven(x, sticky, d) ==
    LET kept == ShiftRight(x, d)
        guard == Bit(x, d - 1)
        low == sticky \/ LowBitsSet(x, d - 1)
        up == guard = 1 /\ (low \/ Bit(kept, 0) = 1)
        rounded == IF up THEN MulAdd(kept, 1, 1) ELSE kept
    IN IF BitLength(rounded) > MantissaBits
       THEN [mant |-> ShiftRight(rounded, 1), shift |-> d + 1]
       ELSE [mant |-> rounded, shift |-> d]

\* the least s with k * 2^s >= N
RECURSIVE NormShift(_, _)
NormShift(k, N) == IF k >= N THEN 0 ELSE 1 + NormShift(2 * k, N)

\* the first n limbs of r/N (0 <= r < N) after the point, most significant
\* first, with the remainder left over
RECURSIVE QuotientLimbs(_, _, _)
QuotientLimbs(r, N, n) ==
    IF n = 0 THEN [limbs |-> <<>>, rem |-> r]
    ELSE LET rest == QuotientLimbs((r * Base) % N, N, n - 1)
         IN [limbs |-> rest.limbs \o <<(r * Base) \div N>>, rem |-> rest.rem]

\* k / N in double precision, for integers 0 < k <= N < 2^15
FloatDiv(k, N) ==
    LET s == NormShift(k, N)
        q == QuotientLimbs(k * Pow2(s) - N, N, QuotientLimbCount)
        exact == q.limbs \o <<1>>
        d == QuotientLimbCount * LimbBits + 1 - MantissaBits
        r == RoundNearestEven(exact, q.rem # 0, d)
    IN [mant |-> r.mant, exp |-> r.shift - d - (MantissaBits - 1) - s]

\* f * c in double precision, for a small integer c >= 1
FloatMulInt(f, c) ==
    LET exact == MulAdd(f.mant, c, 0)
        d == BitLength(exact) - MantissaBits
    IN IF d <= 0
       THEN [mant |-> exact, exp |-> f.exp]
       ELSE LET r == RoundNearestEven(exact, FALSE, d)
            IN [mant |-> r.mant, exp |-> f.exp + r.shift]

\* int(f): truncation toward zero of a positive double below 2^31
FloatTrunc(f) ==
    IF f.exp >= 0 THEN BigToInt(f.mant) * Pow2(f.exp)
    ELSE BigToInt(ShiftRight(f.mant, 0 - f.exp))

\* variant: the completions spread over the whole scale
SubjectProgressFullScale(completed, total_subjects) ==
    ProgressStart + (ProgressDone * completed) \div total_subjects

\* 30 + int((completed / total_subjects) * 50)
SubjectProgress(completed, total_subjects) ==
    ProgressStart + FloatTrunc(FloatMulInt(FloatDiv(completed, total_subjects), ProgressSpan))

\* =================================================================== state
VARIABLES
    \* ExtractionEngine fields, set by __init__
    max_workers,            \* config.get('max_workers', 4)
    tesseract_available,
    text_extractor,         \* None, or Some("TextExtractor")
    extraction_rules,
    \* arguments of extract_data and the file system they name
    subject_list_file,      \* [status, lines]
    root,                   \* [exists, listable, entries]
    target_filename,        \* [stem, suffix]
    progress_callback,      \* "None", "Reliable" or "Raising"
    call,                   \* a single call of a function: [op, arg, out]
    \* extract_data and _process_subjects
    pc,                     \* position of the coordinating thread
    results,                \* the results dict of extract_data
    subject_list,
    subject_folders,
    futures,                \* future_to_subject, in submission order
    first_batch,            \* as_completed: futures already finished when it was called
    finished_queue,         \* as_completed: waiter.finished_futures
    finish_order,           \* history: the futures in the order their pipelines returned
    ocr_calls,              \* history: the paths handed to the OCR backend
    extraction_data,
    completed,
    progress_log,           \* the percentages passed to progress_callback
    \* generate_excel_report, and the previous run's table
    table,
    run,
    first_table,
    \* MainWindow: the controls, the stored results, the worker thread and the
    \* signals it has emitted that the main thread has not handled yet
    window                  \* [start_btn, export_btn, extraction_results, extraction_worker,
                            \*  signals; history: running (threads), emitted (signals of the worker)]

engine == <<max_workers, tesseract_available, text_extractor, extraction_rules>>
inputs == <<subject_list_file, root, target_filename, progress_callback, call>>
pool == <<futures, first_batch, finished_queue, finish_order, ocr_calls>>
reports == <<table, run, first_table, window>>
vars == <<engine, inputs, pc, results, subject_list, subject_folders, pool,
          extraction_data, completed, progress_log, reports>>

\* ------------------------------------------------------------ input universe
\* the folder of subject i, "<i>_N  <i>", and its line of the subject list file
FolderName(i) == <<ToString(i), "_", "N", " ", " ", ToString(i)>>
SubjectLine(i) == <<ToString(i), "\n">>

TextFile == [readable |-> TRUE, pages |-> << <<"a", "b", "\n">>, <<" ">>, <<"A", "a">> >>]
BlankFile == [readable |-> TRUE, pages |-> << <<" ", "\n">> >>]

\* directory trees of a subject folder
ContentText == [listable |-> TRUE,
                visits |-> << [name |-> <<"1">>, is_dir |-> TRUE, file |-> Some(TextFile)] >>]
ContentBlank == [listable |-> TRUE,
                 visits |-> << [name |-> <<"1">>, is_dir |-> TRUE, file |-> Some(BlankFile)] >>]
ContentNoTarget == [listable |-> TRUE,
                    visits |-> << [name |-> <<"x", "1">>, is_dir |-> TRUE, file |-> Some(TextFile)],
                                  [name |-> <<"2">>, is_dir |-> TRUE, file |-> None] >>]
ContentUnlistable == [listable |-> FALSE, visits |-> <<>>]
FolderContents == {ContentText, ContentBlank, ContentNoTarget, ContentUnlistable}

TargetFilenames == {[stem |-> "report", suffix |-> ".pdf"],
                    [stem |-> "scan", suffix |-> ".PNG"],
                    [stem |-> "notes", suffix |-> ".txt"]}

DefaultRules == << [name |-> "First", pattern |-> [kind |-> "capture", ch |-> "A"], transform |-> "none"],
                   [name |-> "Second", pattern |-> [kind |-> "capture", ch |-> "b"], transform |-> "none"] >>

\* ascending sequence of the elements of a set of integers
RECURSIVE SortedSeq(_)
SortedSeq(S) ==
    IF S = {} THEN <<>>
    ELSE LET m == CHOOSE x \in S : \A y \in S : x <= y
         IN <<m>> \o SortedSeq(S \ {m})

\* sequences over S of length at most n
RECURSIVE SeqsUpTo(_, _)
SeqsUpTo(S, n) ==
    IF n = 0 THEN {<<>>}
    ELSE LET shorter == SeqsUpTo(S, n - 1)
         IN shorter \cup {Append(q, x) : q \in {t \in shorter : Len(t) = n - 1}, x \in S}

SubjectListFiles ==
    {[status |-> "missing", lines |-> <<>>], [status |-> "unreadable", lines |-> <<>>]}
    \cup {[status |-> "ok", lines |-> l] :
            l \in SeqsUpTo({SubjectLine(i) : i \in 1..MaxSubjects} \cup {<<"\n">>}, MaxListLen)}

\* roots whose sub-directories are the folders of a set of subjects
RootsOf(ids) ==
    {[exists |-> TRUE, listable |-> TRUE,
      entries |-> [k \in 1..Len(SortedSeq(ids)) |->
                      [name |-> FolderName(SortedSeq(ids)[k]), is_dir |-> TRUE,
                       content |-> c[SortedSeq(ids)[k]]]]] :
        c \in [ids -> FolderContents]}

Roots ==
    {[exists |-> FALSE, listable |-> FALSE, entries |-> <<>>],
     [exists |-> TRUE, listable |-> FALSE, entries |-> <<>>]}
    \cup UNION {RootsOf(ids) : ids \in SUBSET (1..MaxSubjects)}

\* MainWindow.__init__ and init_ui: every control enabled but the export
\* button (line 244), no results, no worker
NewWindow ==
    [start_btn |-> TRUE, export_btn |-> FALSE, extraction_results |-> None,
     extraction_worker |-> "none", signals |-> <<>>, running |-> 0, emitted |-> 0]

\* no function is called on its own
NoCall == [op |-> "none", arg |-> None, out |-> None]

\* ExtractionEngine.__init__, given config.get('max_workers') and whether
\* TextExtractor() could be constructed
EngineInit(config_max_workers, ocr_ok) ==
    /\ max_workers = IF config_max_workers = None THEN DefaultMaxWorkers
                     ELSE config_max_workers[1]
    /\ text_extractor = IF ocr_ok THEN Some("TextExtractor") ELSE None
    /\ tesseract_available = ocr_ok
    /\ extraction_rules = DefaultRules

EmptyResults ==
    [success |-> FALSE, data |-> <<>>, total_subjects |-> 0, processed_subjects |-> 0,
     successful_extractions |-> 0, failed_extractions |-> 0, errors |-> <<>>,
     missing_subjects |-> <<>>, warnings |-> <<>>]

\* the state of a call of extract_data before its first statement
RunInit ==
    /\ pc = "start"
    /\ results = EmptyResults
    /\ subject_list = <<>>
    /\ subject_folders = <<>>
    /\ futures = <<>>
    /\ first_batch = {}
    /\ finished_queue = <<>>
    /\ finish_order = <<>>
    /\ ocr_calls = {}
    /\ extraction_data = <<>>
    /\ completed = 0
    /\ progress_log = <<>>
    /\ table = None

Init ==
    /\ \E w \in {None} \cup {Some(n) : n \in 0..MaxWorkers}, ocr_ok \in BOOLEAN :
          EngineInit(w, ocr_ok)
    /\ subject_list_file \in SubjectListFiles
    /\ root \in Roots
    /\ target_filename \in TargetFilenames
    /\ progress_callback \in {"None", "Reliable", "Raising"}
    /\ call = NoCall
    /\ RunInit
    /\ run = 1
    /\ first_table = None
    /\ window = NewWindow

\* ------------------------------------------------------------------ actions
\* what a call of progress_callback can do: it is not called when it is None
CallbackOutcomes ==
    IF progress_callback = "Raising" THEN {"ok", "raises"} ELSE {"ok"}

CallbackError == "progress callback failed"

\* progress_log after `if progress_callback: progress_callback(percentage, ...)`
Reported(percentage) ==
    IF progress_callback = "None" THEN progress_log ELSE Append(progress_log, percentage)

\* the handler of lines 140-141, entered with exception message e
RunLevelError(e) ==
    /\ results' = [results EXCEPT !.errors = Append(@, "Extraction error: " \o e)]
    /\ pc' = "final"

\* variant: an id requested twice is reported missing once
RECURSIVE MissingOnce(_, _)
MissingOnce(requested, found_subject_ids) ==
    IF requested = <<>> THEN <<>>
    ELSE (IF Head(requested) \notin found_subject_ids THEN <<Head(requested)>> ELSE <<>>)
         \o MissingOnce(Tail(requested), found_subject_ids \cup {Head(requested)})

\* missing_subjects, line 92
RECURSIVE MissingSubjects(_, _)
MissingSubjects(requested, found_subject_ids) ==
    IF requested = <<>> THEN <<>>
    ELSE (IF Head(requested) \notin found_subject_ids THEN <<Head(requested)>> ELSE <<>>)
         \o MissingSubjects(Tail(requested), found_subject_ids)

\* variant: the run that found no subject folder returns without an error
ZeroSubjectSilent(res, missing_subjects) == res

\* lines 100-105: the result of a run that found no subject folder
ZeroSubjectAbort(res, missing_subjects) ==
    [res EXCEPT !.errors =
        Append(@, IF missing_subjects # <<>>
                  THEN "No subject folders found. Missing"
                  ELSE "No subject folders found matching the subject list")]

\* variant: the subjects are counted from the discovered folders
TallyByTotal(res, data) ==
    [res EXCEPT !.data = data,
                !.processed_subjects = res.total_subjects,
                !.successful_extractions = CountSuccessful(data),
                !.failed_extractions = res.total_subjects - CountSuccessful(data)]

\* lines 118-133: the counts of a run
Tally(res, data) ==
    LET successful_count == CountSuccessful(data) IN
    [res EXCEPT !.data = data,
                !.processed_subjects = Len(data),
                !.successful_extractions = successful_count,
                !.failed_extractions = Len(data) - successful_count]

\* extract_data, lines 70-81
LoadSubjectList ==
    /\ pc = "start"
    /\ progress_log' = Reported(ProgressLoad)
    /\ \E outcome \in CallbackOutcomes :
          IF outcome = "raises"
          THEN RunLevelError(CallbackError) /\ UNCHANGED subject_list
          ELSE IF subject_list_file.status = "unreadable"
          THEN RunLevelError("cannot read subject list") /\ UNCHANGED subject_list
          ELSE /\ subject_list' = IF subject_list_file.status = "missing" THEN <<>>
                                  ELSE LoadLines(subject_list_file.lines)
               /\ IF subject_list' = <<>>
                  THEN /\ results' = [results EXCEPT !.errors =
                                         Append(@, "No subjects found in subject list file")]
                       /\ pc' = "returned"
                  ELSE /\ pc' = "resolve"
                       /\ UNCHANGED results
    /\ UNCHANGED <<engine, inputs, subject_folders, pool, extraction_data, completed, reports>>

\* extract_data, lines 83-105
ResolveSubjects ==
    /\ pc = "resolve"
    /\ progress_log' = Reported(ProgressFind)
    /\ \E outcome \in CallbackOutcomes :
          IF outcome = "raises"
          THEN RunLevelError(CallbackError) /\ UNCHANGED subject_folders
          ELSE IF root.exists /\ ~root.listable
          THEN RunLevelError("cannot list root folder") /\ UNCHANGED subject_folders
          ELSE LET found == get_subject_folders(root, subject_list)
                   found_subject_ids == {found[i].subject_id : i \in 1..Len(found)}
                   missing_subjects == MissingSubjects(subject_list, found_subject_ids)
                   counted == [results EXCEPT
                                 !.total_subjects = Len(found),
                                 !.missing_subjects = missing_subjects,
                                 !.warnings = IF missing_subjects # <<>>
                                              THEN Append(@, "Missing subject folders")
                                              ELSE @]
               IN /\ subject_folders' = found
                  /\ IF found = <<>>
                     THEN /\ results' = ZeroSubjectAbort(counted, missing_subjects)
                          /\ pc' = "returned"
                     ELSE /\ results' = counted
                          /\ pc' = "process"
    /\ UNCHANGED <<engine, inputs, subject_list, pool, extraction_data, completed, reports>>

\* extract_data, lines 107-116, and _process_subjects, lines 156-160: the
\* executor is constructed; ThreadPoolExecutor rejects max_workers <= 0
StartProcessing ==
    /\ pc = "process"
    /\ progress_log' = Reported(ProgressStart)
    /\ \E outcome \in CallbackOutcomes :
          IF outcome = "raises"
          THEN RunLevelError(CallbackError)
          ELSE IF max_workers <= 0
          THEN RunLevelError("max_workers must be greater than 0")
          ELSE pc' = "submit" /\ UNCHANGED results
    /\ extraction_data' = <<>>
    /\ futures' = <<>>
    /\ UNCHANGED <<engine, inputs, subject_list, subject_folders, first_batch,
                   finished_queue, finish_order, ocr_calls, completed, reports>>

\* _process_subjects, lines 162-172: one executor.submit
Submit ==
    /\ pc = "submit"
    /\ Len(futures) < Len(subject_folders)
    /\ futures' = Append(futures, [state |-> "pending", result |-> None])
    /\ UNCHANGED <<engine, inputs, pc, results, subject_list, subject_folders, first_batch,
                   finished_queue, finish_order, ocr_calls, extraction_data, completed, progress_log,
                   reports>>

Running == {i \in 1..Len(futures) : futures[i].state = "running"}
Pending == {i \in 1..Len(futures) : futures[i].state = "pending"}
Finished == {i \in 1..Len(futures) : futures[i].state = "finished"}

\* variant: a pool without a limit
WorkerAlwaysFree == TRUE

\* a pool thread may take the next work item
WorkerFree == Cardinality(Running) < max_workers

\* a pool thread takes the oldest queued work item
WorkerStart(i) ==
    /\ pc \in {"submit", "collect"}
    /\ i \in Pending
    /\ \A j \in Pending : i <= j
    /\ WorkerFree
    /\ futures' = [futures EXCEPT ![i].state = "running"]
    /\ UNCHANGED <<engine, inputs, pc, results, subject_list, subject_folders, first_batch,
                   finished_queue, finish_order, ocr_calls, extraction_data, completed, progress_log,
                   reports>>

\* variant: a thread that could not use OCR switches the engine's OCR off
WorkerFinishWritesFlag(i) ==
    /\ i \in Running
    /\ futures' = [futures EXCEPT ![i] =
                      [state |-> "finished",
                       result |-> Some(process_single_subject(subject_folders[i], target_filename,
                                                              tesseract_available, text_extractor))]]
    /\ finished_queue' = IF pc = "collect" THEN Append(finished_queue, i) ELSE finished_queue
    /\ finish_order' = Append(finish_order, i)
    /\ ocr_calls' = ocr_calls \cup ocr_invocations(subject_folders[i], target_filename,
                                                  tesseract_available, text_extractor)
    /\ tesseract_available' = (tesseract_available /\ futures'[i].result[1].extraction_status = "Success")
    /\ UNCHANGED <<max_workers, text_extractor, extraction_rules, inputs, pc, results,
                   subject_list, subject_folders, first_batch, extraction_data, completed,
                   progress_log, reports>>

\* variant: the pool thread appends its record to the shared list itself
WorkerFinishAppends(i) ==
    /\ i \in Running
    /\ futures' = [futures EXCEPT ![i] =
                      [state |-> "finished",
                       result |-> Some(process_single_subject(subject_folders[i], target_filename,
                                                              tesseract_available, text_extractor))]]
    /\ finished_queue' = IF pc = "collect" THEN Append(finished_queue, i) ELSE finished_queue
    /\ finish_order' = Append(finish_order, i)
    /\ ocr_calls' = ocr_calls \cup ocr_invocations(subject_folders[i], target_filename,
                                                  tesseract_available, text_extractor)
    /\ extraction_data' = Append(extraction_data, futures'[i].result[1])
    /\ UNCHANGED <<engine, inputs, pc, results, subject_list, subject_folders, first_batch,
                   completed, progress_log, reports>>

\* the thread runs _process_single_subject to its return and sets the future's
\* result; a waiter installed by as_completed is notified
WorkerFinish(i) ==
    /\ i \in Running
    /\ futures' = [futures EXCEPT ![i] =
                      [state |-> "finished",
                       result |-> Some(process_single_subject(subject_folders[i], target_filename,
                                                              tesseract_available, text_extractor))]]
    /\ finished_queue' = IF pc = "collect" THEN Append(finished_queue, i) ELSE finished_queue
    /\ finish_order' = Append(finish_order, i)
    /\ ocr_calls' = ocr_calls \cup ocr_invocations(subject_folders[i], target_filename,
                                                  tesseract_available, text_extractor)
    /\ UNCHANGED <<engine, inputs, pc, results, subject_list, subject_folders, first_batch,
                   extraction_data, completed, progress_log, reports>>

\* _process_subjects, lines 175-176: as_completed is called on all futures and
\* notes which are finished already
AsCompleted ==
    /\ pc = "submit"
    /\ Len(futures) = Len(subject_folders)
    /\ first_batch' = Finished
    /\ finished_queue' = <<>>
    /\ completed' = 0
    /\ pc' = "collect"
    /\ UNCHANGED <<engine, inputs, results, subject_list, subject_folders, futures,
                   finish_order, ocr_calls, extraction_data, progress_log, reports>>

\* the futures as_completed may yield next: those finished before the call in
\* any order, then the others in the order they finish
NextYield ==
    IF first_batch # {} THEN first_batch
    ELSE IF finished_queue # <<>> THEN {Head(finished_queue)}
    ELSE {}

\* extraction_data after the loop body, lines 177-199, for the future of subject i
Collected(i, outcome) ==
    LET appended == Append(extraction_data, futures[i].result[1]) IN
    IF progress_callback # "None" /\ outcome = "raises"
    THEN Append(appended, error_result(subject_folders[i].subject_id,
                                       subject_folders[i].patient_name, CallbackError))
    ELSE appended

\* _process_subjects, lines 176-199: one iteration of the loop
Collect ==
    /\ pc = "collect"
    /\ \E i \in NextYield, outcome \in CallbackOutcomes :
          /\ first_batch' = first_batch \ {i}
          /\ finished_queue' = IF first_batch # {} THEN finished_queue ELSE Tail(finished_queue)
          /\ completed' = completed + 1
          /\ extraction_data' = Collected(i, outcome)
          /\ progress_log' = Reported(SubjectProgress(completed', Len(subject_folders)))
    /\ UNCHANGED <<engine, inputs, pc, results, subject_list, subject_folders, futures,
                   finish_order, ocr_calls, reports>>

\* _process_subjects returns (line 201) and extract_data tallies, lines 118-138
Aggregate ==
    /\ pc = "collect"
    /\ completed = Len(futures)
    /\ progress_log' = Reported(ProgressAggregate)
    /\ \E outcome \in CallbackOutcomes :
          LET tallied == Tally(results, extraction_data)
          IN IF outcome = "raises"
             THEN results' = [tallied EXCEPT !.errors = Append(@, "Extraction error: " \o CallbackError)]
             ELSE results' = [tallied EXCEPT !.success = TRUE]
    /\ pc' = "final"
    /\ UNCHANGED <<engine, inputs, subject_list, subject_folders, pool, extraction_data,
                   completed, reports>>

\* extract_data, lines 143-146: an exception of the last callback leaves
\* extract_data without a result
Finish ==
    /\ pc = "final"
    /\ progress_log' = Reported(ProgressDone)
    /\ \E outcome \in CallbackOutcomes :
          pc' = IF outcome = "raises" THEN "raised" ELSE "returned"
    /\ UNCHANGED <<engine, inputs, results, subject_list, subject_folders, pool,
                   extraction_data, completed, reports>>

\* generate_excel_report, lines 316-318, on the result of extract_data
GenerateReport ==
    /\ pc = "returned"
    /\ LET processed_df == process_extracted_data(results.data, extraction_rules)
       IN table' = IF processed_df.raised # None THEN None ELSE Some(processed_df.value)
    /\ pc' = "reported"
    /\ UNCHANGED <<engine, inputs, results, subject_list, subject_folders, pool,
                   extraction_data, completed, progress_log, run, first_table, window>>

\* extract_data is called again with the same arguments on the same file system
Rerun ==
    /\ pc = "reported"
    /\ run = 1
    /\ run' = 2
    /\ first_table' = table
    /\ pc' = "start"
    /\ results' = EmptyResults
    /\ subject_list' = <<>>
    /\ subject_folders' = <<>>
    /\ futures' = <<>>
    /\ first_batch' = {}
    /\ finished_queue' = <<>>
    /\ finish_order' = <<>>
    /\ ocr_calls' = {}
    /\ extraction_data' = <<>>
    /\ completed' = 0
    /\ progress_log' = <<>>
    /\ table' = None
    /\ UNCHANGED <<engine, inputs, window>>

Next ==
    \/ LoadSubjectList
    \/ ResolveSubjects
    \/ StartProcessing
    \/ Submit
    \/ \E i \in 1..Len(futures) : WorkerStart(i)
    \/ \E i \in 1..Len(futures) : WorkerFinish(i)
    \/ AsCompleted
    \/ Collect
    \/ Aggregate
    \/ Finish
    \/ GenerateReport

Spec == Init /\ [][Next]_vars

\* ---- fair scheduling
\* The steps of the thread that called extract_data, and of the pool threads,
\* are told apart by what they change: only ResolveSubjects leaves pc =
\* "resolve", only Collect increments completed, only WorkerFinish(i) appends
\* i to finish_order. Fairness is stated on these descriptions of the steps.

\* lines 83-105 are executed: the calling thread leaves the resolution
Resolves == pc = "resolve" /\ pc' \in {"process", "final", "returned"}

\* as_completed yields a finished future and the loop body runs (lines 176-199)
Yields == pc = "collect" /\ NextYield # {} /\ completed' = completed + 1

\* the other steps of the calling thread
Advance ==
    \/ LoadSubjectList
    \/ StartProcessing
    \/ Submit
    \/ AsCompleted
    \/ Aggregate
    \/ Finish

\* the pipeline of a running future returns
Returns(i) == i \in Running /\ finish_order' = Append(finish_order, i)

\* the calling thread keeps running while it can take a step (as_completed
\* blocks it while no future is finished), an idle pool thread takes the
\* oldest queued work item, and every pipeline that runs returns
Fairness ==
    /\ WF_vars(Advance)
    /\ WF_pc(Resolves)
    /\ WF_completed(Yields)
    /\ \A i \in 1..MaxSubjects : WF_vars(WorkerStart(i)) /\ WF_finish_order(Returns(i))

SpecFair == Init /\ [][Next]_vars /\ Fairness

NextRerun == Next \/ Rerun

SpecRerun == Init /\ [][NextRerun]_vars

\* ------------------------------------------------- the progress arithmetic
\* The loop of _process_subjects reports SubjectProgress(completed, total) after
\* each completion, whatever the subject that completed.  ProgressInit is a run
\* with a callback that has reached the loop, for every number of subjects up
\* to MaxTotal; CompletionReported is lines 177 and 184-187 of one iteration;
\* LoopDone is the two reports that follow the loop (lines 136 and 144).
LongFolders(n) ==
    [k \in 1..n |-> [subject_id |-> <<ToString(k)>>, patient_name |-> <<"N">>,
                     folder_path |-> FolderName(k), content |-> ContentText]]

ProgressInit ==
    /\ EngineInit(None, TRUE)
    /\ subject_list_file = [status |-> "ok", lines |-> <<>>]
    /\ root = [exists |-> TRUE, listable |-> TRUE, entries |-> <<>>]
    /\ target_filename = [stem |-> "report", suffix |-> ".pdf"]
    /\ progress_callback = "Reliable"
    /\ call = NoCall
    /\ pc = "loop"
    /\ results = EmptyResults
    /\ subject_list = <<>>
    /\ \E n \in 1..MaxTotal : subject_folders = LongFolders(n)
    /\ futures = <<>>
    /\ first_batch = {}
    /\ finished_queue = <<>>
    /\ finish_order = <<>>
    /\ ocr_calls = {}
    /\ extraction_data = <<>>
    /\ completed = 0
    /\ progress_log = <<ProgressLoad, ProgressFind, ProgressStart>>
    /\ table = None
    /\ run = 1
    /\ first_table = None
    /\ window = NewWindow

CompletionReported ==
    /\ pc = "loop"
    /\ completed < Len(subject_folders)
    /\ completed' = completed + 1
    /\ progress_log' = Reported(SubjectProgress(completed', Len(subject_folders)))
    /\ UNCHANGED <<engine, inputs, pc, results, subject_list, subject_folders, pool,
                   extraction_data, reports>>

LoopDone ==
    /\ pc = "loop"
    /\ completed = Len(subject_folders)
    /\ progress_log' = progress_log \o <<ProgressAggregate, ProgressDone>>
    /\ pc' = "loop_done"
    /\ UNCHANGED <<engine, inputs, results, subject_list, subject_folders, pool,
                   extraction_data, completed, reports>>

NextProgress == Next \/ CompletionReported \/ LoopDone

SpecProgress == (Init \/ ProgressInit) /\ [][NextProgress]_vars

\* ================================================================== claims
\* ---- what the inputs of a run say, read off the inputs alone
Returned == pc \in {"returned", "reported"}

\* _process_subjects has returned its sequence
Processed ==
    /\ pc \in {"final", "returned", "reported"}
    /\ Len(subject_folders) > 0
    /\ completed = Len(subject_folders)

Requested ==
    IF subject_list_file.status = "ok" THEN LoadLines(subject_list_file.lines) ELSE <<>>

SomeFolderMatches ==
    /\ root.exists
    /\ root.listable
    /\ \E i \in 1..Len(root.entries) :
          /\ root.entries[i].is_dir
          /\ parse_folder_name(root.entries[i].name)[1] \in Range(Requested)

AllBlank(text) == \A i \in 1..Len(text) : text[i] \in Whitespace

TargetIsPdf == target_filename.suffix \in {".pdf", ".PDF"}
TargetIsImage == target_filename.suffix \in {".png", ".PNG", ".jpg", ".JPG", ".jpeg", ".tiff", ".bmp", ".gif"}

Holding(folder) ==
    {i \in 1..Len(folder.content.visits) :
        /\ folder.content.visits[i].is_dir
        /\ \A j \in 1..Len(folder.content.visits[i].name) :
              folder.content.visits[i].name[j] \in Digits
        /\ folder.content.visits[i].name # <<>>
        /\ folder.content.visits[i].file # None}

FirstFile(folder) ==
    folder.content.visits[CHOOSE i \in Holding(folder) : \A j \in Holding(folder) : i <= j].file[1]

\* the pipeline of this folder fails: the folder cannot be listed, holds no
\* target file, the target's type is unsupported or needs the missing OCR
\* engine, or the file yields no text
PipelineFails(folder) ==
    \/ ~folder.content.listable
    \/ Holding(folder) = {}
    \/ ~(TargetIsPdf \/ TargetIsImage)
    \/ TargetIsImage /\ ~tesseract_available
    \/ ~FirstFile(folder).readable
    \/ TargetIsPdf /\ \A i \in 1..Len(FirstFile(folder).pages) : AllBlank(FirstFile(folder).pages[i])
    \/ TargetIsImage /\ (FirstFile(folder).pages = <<>> \/ AllBlank(FirstFile(folder).pages[1]))

FolderOf(record) ==
    subject_folders[CHOOSE i \in 1..Len(subject_folders) :
                        subject_folders[i].subject_id = record.subject_id]

FromCallbackHandler(record) == record.error = Some(CallbackError)

RecordsOf(i, data) ==
    {k \in 1..Len(data) : data[k].subject_id = subject_folders[i].subject_id}

\* C1 (failure isolation): every record a pipeline produced is Failed with a
\* non-empty error and no text when its own folder's pipeline fails, and
\* Success with text and no error when it does not, whatever happens to the
\* other subjects; once _process_subjects has returned every discovered subject
\* has its pipeline's record, and a run that discovered subjects and met no
\* run-level exception returns Completed.
C1_FailureIsolation ==
    /\ \A k \in 1..Len(extraction_data) :
          LET r == extraction_data[k] IN
          ~FromCallbackHandler(r) =>
             IF PipelineFails(FolderOf(r))
             THEN /\ r.extraction_status = "Failed"
                  /\ r.error # None
                  /\ r.error[1] # ""
                  /\ r.extracted_text = None
             ELSE /\ r.extraction_status = "Success"
                  /\ r.error = None
                  /\ Truthy(r.extracted_text)
    /\ Processed =>
          \A i \in 1..Len(subject_folders) :
             \E k \in RecordsOf(i, extraction_data) : ~FromCallbackHandler(extraction_data[k])
    /\ (Returned /\ Len(subject_folders) > 0 /\ max_workers > 0 /\ progress_callback # "Raising")
          => results.success

\* C1 witness: a Completed run in which one subject failed and another succeeded
C1_Witness ==
    /\ Returned
    /\ results.success
    /\ Len(results.data) = 2
    /\ \E k, l \in 1..2 :
          /\ PipelineFails(FolderOf(results.data[k]))
          /\ results.data[k].extraction_status = "Failed"
          /\ ~PipelineFails(FolderOf(results.data[l]))
          /\ results.data[l].extraction_status = "Success"

\* C2 (exactly one record per subject): when _process_subjects has returned,
\* the sequence holds exactly one record for each discovered subject folder.
C2_ExactlyOneRecord ==
    Processed =>
       /\ Len(extraction_data) = Len(subject_folders)
       /\ \A i \in 1..Len(subject_folders) : Cardinality(RecordsOf(i, extraction_data)) = 1

\* a declared rule field of the record's row has a non-empty value
RuleFieldFound(record) ==
    LET row == process_record(record, extraction_rules).value IN
    \E j \in 3..Len(row) : row[j][2].kind = "str" /\ Strip(row[j][2].v) # <<>>

\* C3 (success heuristic): after a Completed run, successful_extractions counts
\* exactly the records with a non-empty rule field, and every Failed record
\* without text is counted in failed_extractions.
C3_SuccessHeuristic ==
    (Returned /\ results.success) =>
       /\ results.successful_extractions =
             Cardinality({k \in 1..Len(results.data) : RuleFieldFound(results.data[k])})
       /\ results.failed_extractions >=
             Cardinality({k \in 1..Len(results.data) :
                             /\ results.data[k].extraction_status = "Failed"
                             /\ results.data[k].extracted_text = None})

\* C4 (counter invariant): at every return of extract_data, processed_subjects
\* is the length of data, the successful and failed counts add up to it, and
\* neither is negative.
C4_CounterInvariant ==
    Returned =>
       /\ results.processed_subjects = Len(results.data)
       /\ results.successful_extractions + results.failed_extractions = results.processed_subjects
       /\ results.successful_extractions >= 0
       /\ results.failed_extractions >= 0

\* C4 witness: a Completed run whose callback raised after a completion, so that
\* data is longer than the number of subjects
C4_Witness ==
    /\ Returned
    /\ results.success
    /\ results.processed_subjects > results.total_subjects
    /\ results.total_subjects >= 2

\* C5 (zero-subject abort): when no folder matches the request, no task is ever
\* submitted to the pool, and extract_data returns success false with a
\* non-empty error list and empty data.
C5_ZeroSubjectAbort ==
    ~SomeFolderMatches =>
       /\ futures = <<>>
       /\ Returned => (~results.success /\ results.errors # <<>> /\ results.data = <<>>)

\* C5 witness: a returned run over a root that has folders, none of them
\* requested, with two ids reported missing
C5_Witness ==
    /\ Returned
    /\ ~SomeFolderMatches
    /\ root.exists
    /\ root.entries # <<>>
    /\ Len(results.missing_subjects) >= 2

\* C6 (terminal states): a returned result has success true iff its error list
\* is empty, and a run that discovered a subject folder and met no run-level
\* exception (worker limit positive, callback not raising) is Completed.
C6_TerminalStates ==
    Returned =>
       /\ results.success <=> results.errors = <<>>
       /\ (Requested # <<>> /\ SomeFolderMatches /\ max_workers >= 1 /\ progress_callback # "Raising")
             => results.success

\* C6 witness: a Completed run in which every record is Failed and an id is missing
C6_Witness ==
    /\ Returned
    /\ results.success
    /\ results.data # <<>>
    /\ \A k \in 1..Len(results.data) : results.data[k].extraction_status = "Failed"
    /\ results.missing_subjects # <<>>

\* C7 (bounded concurrency): at every moment the number of subjects whose
\* pipeline is executing is at most max_workers.
C7_BoundedConcurrency == Cardinality(Running) <= max_workers

\* C7 witness: the pool is full and a submitted subject waits for a worker
C7_Witness ==
    /\ max_workers >= 1
    /\ Cardinality(Running) = max_workers
    /\ Pending # {}

\* the percentages are non-decreasing integers within 0..100
NonDecreasing ==
    /\ \A j \in 1..Len(progress_log) : progress_log[j] \in 0..ProgressDone
    /\ \A j \in 1..(Len(progress_log) - 1) : progress_log[j] <= progress_log[j + 1]

\* C8 as stated (progress monotonicity): the percentages are non-decreasing
\* within 0..100 and the k-th of N completions reports 30 + floor(50*k/N).
C8_FloorFormula ==
    progress_callback # "None" =>
       /\ NonDecreasing
       /\ \A k \in 1..completed :
             3 + k <= Len(progress_log) =>
                progress_log[3 + k] = ProgressStart + (ProgressSpan * k) \div Len(subject_folders)

\* C8 amended (progress monotonicity): the percentages are non-decreasing
\* integers within 0..100, starting 10, 20, 30; the k-th of N completions
\* reports 30 + floor(50*k/N) or one less, and the last completion reports 80;
\* a run that went through reports 90 and 100 last.
C8_ProgressMonotone ==
    progress_callback # "None" =>
       /\ NonDecreasing
       /\ Len(progress_log) >= 1 => progress_log[1] = ProgressLoad
       /\ Len(progress_log) >= 3 =>
             progress_log[2] = ProgressFind /\ progress_log[3] \in {ProgressStart, ProgressDone}
       /\ \A k \in 1..completed :
             3 + k <= Len(progress_log) =>
                LET floor == ProgressStart + (ProgressSpan * k) \div Len(subject_folders) IN
                /\ progress_log[3 + k] \in {floor - 1, floor}
                /\ k = Len(subject_folders) => progress_log[3 + k] = ProgressStart + ProgressSpan
       /\ (pc = "loop_done" \/ (Returned /\ results.success)) =>
             /\ Len(progress_log) = 5 + Len(subject_folders)
             /\ progress_log[Len(progress_log) - 1] = ProgressAggregate
             /\ progress_log[Len(progress_log)] = ProgressDone

\* C8 witness: a run over 50 subjects whose 29th completion reported 58
C8_Witness ==
    /\ pc = "loop_done"
    /\ Len(subject_folders) = 50
    /\ progress_log[3 + 29] = 58
    /\ progress_log[Len(progress_log)] = ProgressDone

\* C9 (re-run determinism): the table of the second run on the same inputs is
\* the table of the first run, the same rows in the same order.
C9_RerunDeterminism ==
    (run = 2 /\ pc = "reported" /\ progress_callback # "Raising") => table = first_table

\* the ids of the folders in the order their pipelines finished
FinishedIds == [k \in 1..Len(finish_order) |-> subject_folders[finish_order[k]].subject_id]

\* C10 (completion-order collection): the sequence _process_subjects returns
\* holds, record by record, the subjects in the order their pipelines finished,
\* so that its ids are the ids of the discovered folders, each once per folder.
C10_CompletionOrder ==
    Processed =>
       [k \in 1..Len(extraction_data) |-> extraction_data[k].subject_id] = FinishedIds

\* the futures whose pipeline located an image target without an OCR engine
ImageWithoutOcr ==
    {i \in Finished :
        /\ ~tesseract_available
        /\ TargetIsImage
        /\ subject_folders[i].content.listable
        /\ Holding(subject_folders[i]) # {}}

\* C11 (OCR-unavailable image targets): when tesseract_available is false and
\* the located target is an image, the pipeline's record is Failed, carries the
\* error that OCR is not available and no text, and no path of that folder was
\* handed to the OCR backend.
C11_ImageWithoutOcr ==
    \A i \in ImageWithoutOcr :
       LET r == futures[i].result[1] IN
       /\ r.extraction_status = "Failed"
       /\ r.error = Some("Tesseract OCR not available for image text extraction")
       /\ r.extracted_text = None
       /\ r.file_path # None
       /\ \A path \in ocr_calls : path.folder # subject_folders[i].folder_path

\* C11 witness: two image pipelines have run without an OCR engine
C11_Witness ==
    /\ Cardinality(ImageWithoutOcr) = 2
    /\ pc = "collect"

\* ======================================================== single calls
\* One function is called once on an argument drawn from a bounded set; the
\* engine is constructed and idle.
machine == <<engine, subject_list_file, root, target_filename, progress_callback, pc, results,
             subject_list, subject_folders, pool, extraction_data, completed, progress_log,
             reports>>

Idle ==
    /\ EngineInit(None, TRUE)
    /\ subject_list_file = [status |-> "ok", lines |-> <<>>]
    /\ root = [exists |-> TRUE, listable |-> TRUE, entries |-> <<>>]
    /\ target_filename = [stem |-> "report", suffix |-> ".pdf"]
    /\ progress_callback = "None"
    /\ pc = "call"
    /\ results = EmptyResults
    /\ subject_list = <<>>
    /\ subject_folders = <<>>
    /\ futures = <<>>
    /\ first_batch = {}
    /\ finished_queue = <<>>
    /\ finish_order = <<>>
    /\ ocr_calls = {}
    /\ extraction_data = <<>>
    /\ completed = 0
    /\ progress_log = <<>>
    /\ table = None
    /\ run = 1
    /\ first_table = None
    /\ window = NewWindow

\* PDF documents: page texts, some of them blank
PageTexts == { <<>>, <<" ">>, <<"a">>, <<" ", "a", "\n">>, <<"\n", "b", " ">> }

PdfFiles == {[readable |-> r, pages |-> p] : r \in BOOLEAN, p \in SeqsUpTo(PageTexts, MaxPages)}

\* a subject folder whose visit 1 holds the document
PdfFolder(file) ==
    [subject_id |-> <<"1">>, patient_name |-> <<"N">>, folder_path |-> FolderName(1),
     content |-> [listable |-> TRUE,
                  visits |-> << [name |-> <<"1">>, is_dir |-> TRUE, file |-> Some(file)] >>]]

PdfCallInit ==
    /\ Idle
    /\ call \in {[op |-> "pdf", arg |-> file, out |-> None] : file \in PdfFiles}

\* _process_single_subject on a PDF target, by an engine that has a
\* TextExtractor and by one that has none
ProcessPdf ==
    /\ call.op = "pdf"
    /\ call.out = None
    /\ call' = [call EXCEPT !.out = Some(
                   [with_ocr |-> process_single_subject(PdfFolder(call.arg), target_filename,
                                                        TRUE, Some("TextExtractor")),
                    without_ocr |-> process_single_subject(PdfFolder(call.arg), target_filename,
                                                           FALSE, None)])]
    /\ UNCHANGED machine

\* folder names: digits, letters, underscores and whitespace
NameChars == {"1", "N", "_", " ", "\t"}

FolderNames == SeqsUpTo(NameChars, MaxNameLen)

ParseCallInit ==
    /\ Idle
    /\ call \in {[op |-> "parse", arg |-> folder_name, out |-> None] : folder_name \in FolderNames}

ParseName ==
    /\ call.op = "parse"
    /\ call.out = None
    /\ call' = [call EXCEPT !.out = Some(parse_folder_name(call.arg))]
    /\ UNCHANGED machine

\* age strings: an optional sign, digits, an optional point and digits; and
\* strings that are no decimal number
AgeDigits == {"0", "1", "4", "5", "9"}

DecimalStrings ==
    {sign \o whole \o point \o frac :
        sign \in {<<>>, <<"+">>, <<"-">>},
        whole \in SeqsUpTo(AgeDigits, MaxDigits),
        point \in {<<>>, <<".">>},
        frac \in SeqsUpTo(AgeDigits, MaxDigits)}

NonNumbers ==
    { <<"a", "b", "c">>, <<"1", ".", "2", ".", "3">>, <<"2", " ", "5">>, <<"1", "e">>,
      <<"n", "a", "n">>, <<"i", "n", "f">>, <<"-", "I", "n", "f">>,
      <<"i", "n", "f", "i", "n", "i", "t", "y">> }

AgeCallInit ==
    /\ Idle
    /\ call \in {[op |-> "age", arg |-> age_str, out |-> None] :
                    age_str \in DecimalStrings \cup NonNumbers}

RoundAge ==
    /\ call.op = "age"
    /\ call.out = None
    /\ call' = [call EXCEPT !.out = Some(round_age(call.arg))]
    /\ UNCHANGED machine

\* gender tokens: the words of both vocabularies and other words, in upper
\* case, lower case and capitalised, with and without whitespace around them
GenderWords ==
    female_terms \cup male_terms
    \cup { <<>>, <<"X">>, <<"B", "A">>, <<"K", "E">>, <<"F", "E", "M">>, <<"B", " ", "A", "Y">>,
           <<"B", "A", "Y", "A", "N", "X">>, <<"M", "_", "X">> }

Cased(word) ==
    { word, [i \in 1..Len(word) |-> LowerChar(word[i])],
      [i \in 1..Len(word) |-> IF i = 1 THEN word[i] ELSE LowerChar(word[i])] }

GenderStrings ==
    {left \o word \o right :
        left \in {<<>>, <<" ">>, <<"\t", " ">>},
        word \in UNION {Cased(w) : w \in GenderWords},
        right \in {<<>>, <<" ">>, <<" ", "\n">>}}

GenderCallInit ==
    /\ Idle
    /\ call \in {[op |-> "gender", arg |-> gender_str, out |-> None] :
                    gender_str \in GenderStrings}

\* map_turkish_gender, and map_turkish_gender on its own result
MapGender ==
    /\ call.op = "gender"
    /\ call.out = None
    /\ call' = [call EXCEPT !.out = Some(
                   [once |-> map_turkish_gender(call.arg),
                    twice |-> map_turkish_gender(map_turkish_gender(call.arg))])]
    /\ UNCHANGED machine

\* texts and patterns: a letter alone ("plain"), followed by a group of one
\* character ("capture"), by such a group made optional ("optional") or by a
\* group with the rest of the line ("rest"); the empty pattern; and a pattern
\* that does not compile
SearchTexts == SeqsUpTo({"a", "b", " ", "\n"}, MaxTextLen)

SearchPatterns ==
    {[kind |-> kind, ch |-> ch] :
        kind \in {"plain", "capture", "optional", "rest"}, ch \in {"a", "B"}}
    \cup {[kind |-> "empty", ch |-> ""], [kind |-> "invalid", ch |-> "("]}

ExtractCallInit ==
    /\ Idle
    /\ call \in {[op |-> "extract", arg |-> [text |-> text, pattern |-> pattern], out |-> None] :
                    text \in SearchTexts, pattern \in SearchPatterns}

ExtractWithPattern ==
    /\ call.op = "extract"
    /\ call.out = None
    /\ call' = [call EXCEPT !.out = Some(extract_with_pattern(call.arg.text, call.arg.pattern))]
    /\ UNCHANGED machine

\* subject folders: visit folders named by digits or not, a file among them,
\* with and without the target file, whose content differs from visit to visit
OtherFile == [readable |-> TRUE, pages |-> << <<"b">> >>]
UnreadableFile == [readable |-> FALSE, pages |-> <<>>]

VisitEntries ==
    { [name |-> <<"1">>, is_dir |-> TRUE, file |-> Some(TextFile)],
      [name |-> <<"1">>, is_dir |-> TRUE, file |-> Some(BlankFile)],
      [name |-> <<"2">>, is_dir |-> TRUE, file |-> Some(OtherFile)],
      [name |-> <<"2">>, is_dir |-> TRUE, file |-> Some(UnreadableFile)],
      [name |-> <<"3">>, is_dir |-> TRUE, file |-> None],
      [name |-> <<"x", "1">>, is_dir |-> TRUE, file |-> Some(TextFile)],
      [name |-> <<"4">>, is_dir |-> FALSE, file |-> Some(TextFile)] }

VisitListings ==
    {l \in SeqsUpTo(VisitEntries, MaxVisits) :
        \A i, j \in 1..Len(l) : i # j => l[i].name # l[j].name}

SubjectFolder(visits) ==
    [subject_id |-> <<"1">>, patient_name |-> <<"N">>, folder_path |-> FolderName(1),
     content |-> [listable |-> TRUE, visits |-> visits]]

CallTargets ==
    TargetFilenames \cup {[stem |-> "report", suffix |-> ".PDF"],
                          [stem |-> "notes", suffix |-> ".TXT"],
                          [stem |-> "notes", suffix |-> ""]}

SubjectCallInit ==
    /\ Idle
    /\ call \in {[op |-> "subject",
                  arg |-> [folder |-> SubjectFolder(visits), target |-> target, ocr |-> ocr],
                  out |-> None] :
                    visits \in VisitListings, target \in CallTargets, ocr \in BOOLEAN}

\* the engine of a call: with its TextExtractor, or without OCR
ExtractorOf(ocr) == IF ocr THEN Some("TextExtractor") ELSE None

\* _process_single_subject on a subject folder
ProcessSubject ==
    /\ call.op = "subject"
    /\ call.out = None
    /\ call' = [call EXCEPT !.out = Some(
                   [record |-> process_single_subject(call.arg.folder, call.arg.target,
                                                      call.arg.ocr, ExtractorOf(call.arg.ocr)),
                    reads |-> files_read(call.arg.folder, call.arg.target,
                                         call.arg.ocr, ExtractorOf(call.arg.ocr))])]
    /\ UNCHANGED machine

\* ---- construction of the engine: the probe of the OCR installation
\* exceptions derived from Exception; SystemExit derives from BaseException only
ExceptionClasses == {"pytesseract.TesseractNotFoundError", "TesseractNotFoundError", "Exception"}

\* what pytesseract.get_tesseract_version() does: it returns the version,
\* raises its TesseractNotFoundError when the executable cannot be run, fails
\* otherwise, or raises SystemExit for a version it does not accept
VersionOutcomes ==
    {Return("5.3.0"), Raise("pytesseract.TesseractNotFoundError"), Raise("Exception"),
     Raise("SystemExit")}

\* what pytesseract.get_languages() does: the installed languages, or a failure
LanguageOutcomes ==
    {Return(langs) : langs \in SUBSET {"eng", "tur"}}
    \cup {Raise("pytesseract.TesseractNotFoundError"), Raise("Exception")}

Probes == {[version |-> v, languages |-> l] : v \in VersionOutcomes, l \in LanguageOutcomes}

\* the try block of _validate_tesseract_installation (lines 43-57): the first
\* call that raises ends it; without 'eng' it raises TesseractNotFoundError
probe_body(probe) ==
    IF probe.version.raised # None THEN probe.version
    ELSE IF probe.languages.raised # None THEN probe.languages
    ELSE IF "eng" \notin probe.languages.value THEN Raise("TesseractNotFoundError")
    ELSE Return(<<>>)

\* _validate_tesseract_installation: `except pytesseract.TesseractNotFoundError`
\* (line 59) and `except Exception` (line 64) both raise TesseractNotFoundError;
\* the module's own TesseractNotFoundError is an Exception and not pytesseract's;
\* an exception that is not an Exception passes both clauses
validate_tesseract_installation(probe) ==
    LET body == probe_body(probe) IN
    IF body.raised = None THEN body
    ELSE IF body.raised[1] = "pytesseract.TesseractNotFoundError" THEN Raise("TesseractNotFoundError")
    ELSE IF body.raised[1] \in ExceptionClasses THEN Raise("TesseractNotFoundError")
    ELSE body

\* TextExtractor.__init__: the extractor, unless the validation raises
TextExtractor(probe) ==
    LET validation == validate_tesseract_installation(probe) IN
    IF validation.raised = None THEN Return("TextExtractor") ELSE validation

\* ExtractionEngine.__init__ (lines 27-39): max_workers from the configuration,
\* then the extractor; only TesseractNotFoundError is caught (line 36). The
\* fields are those assigned when the constructor ends.
ExtractionEngine(config_max_workers, probe) ==
    LET workers == IF config_max_workers = None THEN DefaultMaxWorkers ELSE config_max_workers[1]
        extractor == TextExtractor(probe)
    IN  IF extractor.raised = None
        THEN [raised |-> None, max_workers |-> workers,
              text_extractor |-> Some(extractor.value), tesseract_available |-> Some(TRUE)]
        ELSE IF extractor.raised[1] = "TesseractNotFoundError"
        THEN [raised |-> None, max_workers |-> workers,
              text_extractor |-> Some(None), tesseract_available |-> Some(FALSE)]
        ELSE [raised |-> extractor.raised, max_workers |-> workers,
              text_extractor |-> None, tesseract_available |-> None]

ConstructCallInit ==
    /\ Idle
    /\ call \in {[op |-> "construct", arg |-> [max_workers |-> w, probe |-> probe], out |-> None] :
                    w \in {None, Some(1), Some(2)}, probe \in Probes}

\* ExtractionEngine(config, rules) is called
Construct ==
    /\ call.op = "construct"
    /\ call.out = None
    /\ call' = [call EXCEPT !.out = Some(ExtractionEngine(call.arg.max_workers, call.arg.probe))]
    /\ UNCHANGED machine

\* ---- the rules file: JSON text as a sequence of tokens
Punct(p) == [t |-> p, s |-> None]
Str(x) == [t |-> "string", s |-> Some(x)]
Blank == [t |-> "ws", s |-> None]

\* the keys of a rule, in the order of the dict
RuleKeys == <<"name", "pattern", "transform">>

RECURSIVE dump_members(_, _)
dump_members(rule, keys) ==
    IF keys = <<>> THEN <<>>
    ELSE <<Str(Head(keys)), Punct(":"), Blank, Str(rule[Head(keys)])>>
         \o (IF Tail(keys) = <<>> THEN <<>>
             ELSE <<Punct(","), Blank>> \o dump_members(rule, Tail(keys)))

RECURSIVE dump_items(_)
dump_items(rules) ==
    IF rules = <<>> THEN <<>>
    ELSE <<Punct("{"), Blank>> \o dump_members(Head(rules), RuleKeys) \o <<Blank, Punct("}")>>
         \o (IF Tail(rules) = <<>> THEN <<>> ELSE <<Punct(","), Blank>> \o dump_items(Tail(rules)))

\* json.dump(rules, f, indent=4, ensure_ascii=False), line 38: the text of a
\* list of dicts, with the white space of the indentation
json_dump(rules) ==
    IF rules = <<>> THEN <<Punct("["), Punct("]")>>
    ELSE <<Punct("["), Blank>> \o dump_items(rules) \o <<Blank, Punct("]")>>

Failed == [ok |-> FALSE, value |-> None, rest |-> <<>>]
Parsed(v, rest) == [ok |-> TRUE, value |-> Some(v), rest |-> rest]

\* the dict of a sequence of key/value pairs: a later pair of a key wins
DictOf(pairs) ==
    [k \in {pairs[i][1] : i \in 1..Len(pairs)} |->
        pairs[CHOOSE i \in 1..Len(pairs) :
                 pairs[i][1] = k /\ \A j \in (i + 1)..Len(pairs) : pairs[j][1] # k][2]]

\* the members of an object after its "{": "key": "value" pairs up to "}"
RECURSIVE parse_members(_, _)
parse_members(toks, pairs) ==
    IF Len(toks) < 4 THEN Failed
    ELSE IF toks[1].t # "string" \/ toks[2].t # ":" \/ toks[3].t # "string" THEN Failed
    ELSE LET found == Append(pairs, <<toks[1].s[1], toks[3].s[1]>>) IN
         IF toks[4].t = "}" THEN Parsed(DictOf(found), SubSeq(toks, 5, Len(toks)))
         ELSE IF toks[4].t = "," THEN parse_members(SubSeq(toks, 5, Len(toks)), found)
         ELSE Failed

\* the items of an array after its "[": objects up to "]"
RECURSIVE parse_items(_, _)
parse_items(toks, items) ==
    IF Len(toks) < 2 \/ toks[1].t # "{" THEN Failed
    ELSE LET object == IF toks[2].t = "}" THEN Parsed(<<>>, SubSeq(toks, 3, Len(toks)))
                       ELSE parse_members(Tail(toks), <<>>) IN
         IF ~object.ok \/ object.rest = <<>> THEN Failed
         ELSE IF object.rest[1].t = "]"
              THEN Parsed(Append(items, object.value[1]), Tail(object.rest))
         ELSE IF object.rest[1].t = ","
              THEN parse_items(Tail(object.rest), Append(items, object.value[1]))
         ELSE Failed

\* json.load(f), line 30: the list of the text, white space skipped; text that
\* is not one JSON document (empty, cut short, or followed by more) raises
json_load(text) ==
    LET toks == SelectSeq(text, LAMBDA tok : tok.t # "ws")
        array == IF Len(toks) < 2 \/ toks[1].t # "[" THEN Failed
                 ELSE IF toks[2].t = "]" THEN Parsed(<<>>, SubSeq(toks, 3, Len(toks)))
                 ELSE parse_items(Tail(toks), <<>>)
    IN IF array.ok /\ array.rest = <<>> THEN Return(array.value[1])
       ELSE Raise("JSONDecodeError")

NoFile == [exists |-> FALSE, content |-> <<>>]

\* variant: the rules file is opened for appending
save_appending(store, rules) ==
    [exists |-> TRUE, content |-> store.content \o json_dump(rules)]

\* ConfigManager.save_extraction_rules: open(path, 'w') empties or creates the
\* file, json.dump writes the text
save_extraction_rules(store, rules) ==
    LET opened == [exists |-> TRUE, content |-> <<>>] IN
    [opened EXCEPT !.content = opened.content \o json_dump(rules)]

\* ConfigManager.load_extraction_rules: the rules of the file; the default
\* rules only when there is no file (line 31)
load_extraction_rules(store) ==
    IF store.exists THEN json_load(store.content) ELSE Return(DefaultRules)

Rules ==
    { [name |-> "First", pattern |-> [kind |-> "capture", ch |-> "A"], transform |-> "none"],
      [name |-> "Age", pattern |-> [kind |-> "rest", ch |-> "a"], transform |-> "age_round"],
      [name |-> "Gender", pattern |-> [kind |-> "rest", ch |-> "g"], transform |-> "gender_turkish"],
      [name |-> "Next", pattern |-> [kind |-> "optional", ch |-> "b"], transform |-> "none"],
      [name |-> "Broken", pattern |-> [kind |-> "invalid", ch |-> "("], transform |-> "none"],
      [name |-> "", pattern |-> [kind |-> "capture", ch |-> "b"], transform |-> "none"],
      [name |-> "Blank", pattern |-> [kind |-> "empty", ch |-> ""], transform |-> "none"] }

RuleSets == SeqsUpTo(Rules, MaxRules)

\* ---- the rules file: two saves, each followed by a load
RulesCallInit ==
    /\ Idle
    /\ call \in {[op |-> "rules", arg |-> [store |-> store, first |-> r1, second |-> r2],
                  out |-> None] :
                    store \in {NoFile, save_extraction_rules(NoFile, DefaultRules)},
                    r1 \in RuleSets, r2 \in RuleSets}

\* save_extraction_rules(first), load_extraction_rules(),
\* save_extraction_rules(second), load_extraction_rules()
SaveAndLoad ==
    /\ call.op = "rules"
    /\ call.out = None
    /\ LET saved == save_extraction_rules(call.arg.store, call.arg.first)
           again == save_extraction_rules(saved, call.arg.second)
       IN call' = [call EXCEPT !.out = Some([once |-> load_extraction_rules(saved),
                                             twice |-> load_extraction_rules(again)])]
    /\ UNCHANGED machine

\* ---- the two probes of the OCR installation
\* TextExtractor.check_tesseract_availability (lines 101-133): the status
\* dict; `available` is set once both calls of pytesseract have returned.
\* An exception that is not an Exception passes both except clauses.
check_tesseract_availability(probe) ==
    LET result == [available |-> FALSE, version |-> None, languages |-> {}, error |-> None] IN
    IF probe.version.raised # None
    THEN IF probe.version.raised[1] = "pytesseract.TesseractNotFoundError"
         THEN Return([result EXCEPT !.error = Some("Tesseract executable not found in PATH")])
         ELSE IF probe.version.raised[1] \in ExceptionClasses
         THEN Return([result EXCEPT !.error = Some("Tesseract validation error")])
         ELSE probe.version
    ELSE IF probe.languages.raised # None
    THEN IF probe.languages.raised[1] = "pytesseract.TesseractNotFoundError"
         THEN Return([result EXCEPT !.version = Some(probe.version.value),
                                    !.error = Some("Tesseract executable not found in PATH")])
         ELSE IF probe.languages.raised[1] \in ExceptionClasses
         THEN Return([result EXCEPT !.version = Some(probe.version.value),
                                    !.error = Some("Tesseract validation error")])
         ELSE probe.languages
    ELSE Return([result EXCEPT !.version = Some(probe.version.value),
                               !.languages = probe.languages.value,
                               !.available = TRUE])

\* MainWindow.check_system_dependencies (lines 587-637): the main window's
\* tesseract_available after the check
check_system_dependencies(probe) ==
    LET tesseract_status == check_tesseract_availability(probe) IN
    IF tesseract_status.raised # None THEN tesseract_status
    ELSE IF ~tesseract_status.value.available THEN Return(FALSE)
    ELSE Return(TRUE)

AvailabilityCallInit ==
    /\ Idle
    /\ call \in {[op |-> "availability", arg |-> probe, out |-> None] : probe \in Probes}

\* the main window checks its dependencies and, at start_extraction,
\* constructs the engine, on the same OCR installation
CheckAvailability ==
    /\ call.op = "availability"
    /\ call.out = None
    /\ call' = [call EXCEPT !.out = Some([status |-> check_tesseract_availability(call.arg),
                                          window |-> check_system_dependencies(call.arg),
                                          extractor |-> TextExtractor(call.arg),
                                          engine |-> ExtractionEngine(None, call.arg)])]
    /\ UNCHANGED machine

CallsInit ==
    \/ PdfCallInit
    \/ ParseCallInit
    \/ AgeCallInit
    \/ GenderCallInit
    \/ ExtractCallInit
    \/ SubjectCallInit
    \/ ConstructCallInit
    \/ RulesCallInit
    \/ AvailabilityCallInit

NextCalls ==
    \/ ProcessPdf
    \/ ParseName
    \/ RoundAge
    \/ MapGender
    \/ ExtractWithPattern
    \/ ProcessSubject
    \/ Construct
    \/ SaveAndLoad
    \/ CheckAvailability

SpecCalls == CallsInit /\ [][NextCalls]_vars

\* C12 (PDF extraction is independent of OCR availability): for a PDF target
\* the record of _process_single_subject is the same with and without the OCR
\* engine, and _extract_from_pdf and _extract_pdf_fallback return the same text
\* or absence for the document.
C12_PdfIndependent ==
    (call.op = "pdf" /\ call.out # None) =>
       /\ call.out[1].with_ocr = call.out[1].without_ocr
       /\ extract_from_pdf(call.arg) = extract_pdf_fallback(call.arg)

\* C12 witness: a three-page document with a blank page in the middle was
\* extracted on both paths
C12_Witness ==
    /\ call.op = "pdf"
    /\ call.out # None
    /\ Len(call.arg.pages) = 3
    /\ Strip(call.arg.pages[2]) = <<>>
    /\ call.out[1].with_ocr.extraction_status = "Success"
    /\ call.out[1].without_ocr.extraction_status = "Success"

\* ==================================================== application runs
\* The main window loads its rules from the rules store at start-up, the
\* settings dialog may replace them before a run, and start_extraction hands
\* them to the engine; the run is followed by the report.

\* ConfigManager: the rules store is [exists, content], a file of JSON text
RuleStores ==
    {NoFile} \cup {save_extraction_rules(NoFile, rules) : rules \in RuleSets}

\* SettingsWindow.save_changes, lines 614-626, and
\* DataProcessor.validate_extraction_rules: the validation errors of a rule set
RECURSIVE validation_errors(_)
validation_errors(rules) ==
    IF rules = <<>> THEN <<>>
    ELSE LET rule == Head(rules) IN
         (IF rule.name = "" THEN <<"Missing field name">> ELSE <<>>)
         \o (IF rule.pattern.kind = "empty" THEN <<"Missing pattern">> ELSE <<>>)
         \o (IF rule.pattern.kind = "invalid" THEN <<"Invalid pattern">> ELSE <<>>)
         \o validation_errors(Tail(rules))

\* documents of the application runs: an age, a gender and a follower of "b";
\* an age that overflows and a "b" at the end of a line
RecordFile == [readable |-> TRUE,
               pages |-> << <<"a", "1", ".", "5", "1", "\n", "g", " ", "k", "\n", "b", "x">> >>]
OddFile == [readable |-> TRUE,
            pages |-> << <<"a", "i", "n", "f", "\n", "b", "\n", "A", "z">> >>]

AppContents ==
    { [listable |-> TRUE,
       visits |-> << [name |-> <<"1">>, is_dir |-> TRUE, file |-> Some(RecordFile)] >>],
      [listable |-> TRUE,
       visits |-> << [name |-> <<"1">>, is_dir |-> TRUE, file |-> Some(OddFile)] >>],
      ContentNoTarget }

AppRoots ==
    UNION {{[exists |-> TRUE, listable |-> TRUE,
             entries |-> [k \in 1..Len(SortedSeq(ids)) |->
                            [name |-> FolderName(SortedSeq(ids)[k]), is_dir |-> TRUE,
                             content |-> c[SortedSeq(ids)[k]]]]] :
            c \in [ids -> AppContents]} : ids \in SUBSET (1..MaxSubjects)}

\* MainWindow.__init__ (line 61) and start_extraction (line 422)
AppInit ==
    /\ max_workers = 1
    /\ text_extractor = Some("TextExtractor")
    /\ tesseract_available = TRUE
    /\ \E store \in RuleStores : extraction_rules = load_extraction_rules(store).value
    /\ subject_list_file = [status |-> "ok", lines |-> [i \in 1..MaxSubjects |-> SubjectLine(i)]]
    /\ root \in AppRoots
    /\ target_filename = [stem |-> "report", suffix |-> ".pdf"]
    /\ progress_callback = "None"
    /\ call = NoCall
    /\ RunInit
    /\ run = 1
    /\ first_table = None
    /\ window = NewWindow

\* SettingsWindow.save_changes and MainWindow.open_settings (lines 543-545): a
\* rule set that passes validation is saved and loaded back by the main window
SaveChanges ==
    /\ pc = "start"
    /\ \E rules \in RuleSets, store \in RuleStores :
          extraction_rules' = IF validation_errors(rules) = <<>>
                              THEN load_extraction_rules(save_extraction_rules(store, rules)).value
                              ELSE extraction_rules
    /\ UNCHANGED <<max_workers, tesseract_available, text_extractor, inputs, pc, results,
                   subject_list, subject_folders, pool, extraction_data, completed,
                   progress_log, reports>>

NextApp == Next \/ SaveChanges

SpecApp == AppInit /\ [][NextApp]_vars

\* the rules that process_extracted_data applies: line 48 skips a rule
\* without a field name or without a pattern
Applied(rule) == rule.name # "" /\ rule.pattern.kind # "empty"

\* the cell of one rule applied on its own to a text: no value when the
\* extraction or the transform fails
FieldAlone(text, rule) ==
    LET raw_value == extract_with_pattern(text, rule.pattern)
        processed_value == transform_value(raw_value.value[1], rule.transform)
    IN IF raw_value.raised # None \/ raw_value.value = None THEN NoneCell
       ELSE IF processed_value.raised # None THEN NoneCell
       ELSE processed_value.value

\* the last rule of its field name: the one whose value the field keeps
LastOfName(rules, k) == \A j \in (k + 1)..Len(rules) : rules[j].name # rules[k].name

\* the cell of a row under a column name
CellOf(df, i, name) ==
    IF \E c \in 1..Len(df.columns) : df.columns[c] = name
    THEN df.rows[i][CHOOSE c \in 1..Len(df.columns) : df.columns[c] = name]
    ELSE NaNCell

\* C13 (rule independence): the report of a run has a table with one row per
\* record, and in the row of every record with text every applied rule's field
\* holds what that rule yields on its own: a rule that fails leaves its own
\* field without a value and nothing else.
C13_RuleIndependence ==
    (pc = "reported" /\ results.data # <<>>) =>
       /\ table # None
       /\ Len(table[1].rows) = Len(results.data)
       /\ \A i \in 1..Len(results.data), k \in 1..Len(extraction_rules) :
             (/\ Truthy(results.data[i].extracted_text)
              /\ Applied(extraction_rules[k])
              /\ LastOfName(extraction_rules, k))
             => LET alone == FieldAlone(results.data[i].extracted_text[1], extraction_rules[k])
                    cell == CellOf(table[1], i, extraction_rules[k].name)
                IN IF alone = NoneCell THEN cell \in {NoneCell, NaNCell} ELSE cell = alone

\* the patterns handed to extract_with_pattern for one text: the applied rules
\* up to the first one that raises
RECURSIVE PatternsTried(_, _)
PatternsTried(text, rules) ==
    IF rules = <<>> THEN {}
    ELSE IF ~Applied(Head(rules)) THEN PatternsTried(text, Tail(rules))
    ELSE {Head(rules).pattern}
         \cup (IF ApplyRules(<<>>, text, <<Head(rules)>>).raised # None THEN {}
               ELSE PatternsTried(text, Tail(rules)))

\* the patterns handed to extract_with_pattern by process_extracted_data: those
\* of the records with text up to the first record that raises
InvokedPatterns(raw_data, rules) ==
    UNION {PatternsTried(raw_data[i].extracted_text[1], rules) :
             i \in {k \in 1..Len(raw_data) :
                      /\ Truthy(raw_data[k].extracted_text)
                      /\ \A j \in 1..(k - 1) : process_record(raw_data[j], rules).raised = None}}

\* C14 (validation gate): whichever way the application obtained its rule set,
\* the report of a run never hands a pattern that does not compile to
\* extract_with_pattern.
C14_ValidationGate ==
    pc = "reported" =>
       \A pattern \in InvokedPatterns(results.data, extraction_rules) : pattern.kind # "invalid"

\* C15 (output table shape): the table of a run with records, under a rule
\* set that passes validation and has distinct field names, has one row per
\* record and the columns 'Subject ID', 'Name' and one column per rule in rule
\* order.
C15_TableShape ==
    (/\ pc = "reported"
     /\ results.data # <<>>
     /\ table # None
     /\ validation_errors(extraction_rules) = <<>>
     /\ \A k \in 1..Len(extraction_rules) : LastOfName(extraction_rules, k))
    => /\ Len(table[1].rows) = Len(results.data)
       /\ table[1].columns =
             <<"Subject ID", "Name">> \o [k \in 1..Len(extraction_rules) |-> extraction_rules[k].name]

\* ==================================================== window sessions
\* The main window with its start and export buttons, the worker thread of a
\* run and the signals the worker emits to the main thread. Between two runs
\* the user may change the subject list file.

\* what the user may enter before a run: a subject list file that names the
\* subject, an empty one, and one that cannot be read
SessionLists ==
    {[status |-> "ok", lines |-> <<SubjectLine(1)>>],
     [status |-> "ok", lines |-> <<>>],
     [status |-> "unreadable", lines |-> <<>>]}

SessionRoot ==
    [exists |-> TRUE, listable |-> TRUE,
     entries |-> << [name |-> FolderName(1), is_dir |-> TRUE, content |-> ContentText] >>]

\* MainWindow.__init__: no run has been started
WindowInit ==
    /\ EngineInit(Some(1), TRUE)
    /\ subject_list_file \in SessionLists
    /\ root = SessionRoot
    /\ target_filename = [stem |-> "report", suffix |-> ".pdf"]
    /\ progress_callback \in {"Reliable", "Raising"}
    /\ call = NoCall
    /\ pc = "idle"
    /\ results = EmptyResults
    /\ subject_list = <<>>
    /\ subject_folders = <<>>
    /\ futures = <<>>
    /\ first_batch = {}
    /\ finished_queue = <<>>
    /\ finish_order = <<>>
    /\ ocr_calls = {}
    /\ extraction_data = <<>>
    /\ completed = 0
    /\ progress_log = <<>>
    /\ table = None
    /\ run = 1
    /\ first_table = None
    /\ window = NewWindow

\* MainWindow.start_extraction, on a click of the enabled start button: when
\* validate_inputs accepts the fields the controls are disabled, an engine is
\* constructed and a worker is created and started on the fields
StartExtraction ==
    /\ window.start_btn
    /\ \E valid \in BOOLEAN, list \in SessionLists :
          IF ~valid
          THEN UNCHANGED vars
          ELSE /\ window' = [window EXCEPT !.start_btn = FALSE,
                                           !.extraction_worker = "running",
                                           !.running = @ + 1,
                                           !.emitted = 0]
               /\ subject_list_file' = list
               /\ pc' = "start"
               /\ results' = EmptyResults
               /\ subject_list' = <<>>
               /\ subject_folders' = <<>>
               /\ futures' = <<>>
               /\ first_batch' = {}
               /\ finished_queue' = <<>>
               /\ finish_order' = <<>>
               /\ ocr_calls' = {}
               /\ extraction_data' = <<>>
               /\ completed' = 0
               /\ progress_log' = <<>>
               /\ UNCHANGED <<engine, root, target_filename, progress_callback, call, table, run,
                              first_table>>

\* the steps of extract_data and of its pool, run by the worker thread
\* (ExtractionWorker.run, lines 38-44)
RunStep ==
    \/ LoadSubjectList
    \/ ResolveSubjects
    \/ StartProcessing
    \/ Submit
    \/ \E i \in 1..Len(futures) : WorkerStart(i)
    \/ \E i \in 1..Len(futures) : WorkerFinish(i)
    \/ AsCompleted
    \/ Collect
    \/ Aggregate
    \/ Finish

\* variant: the worker emits nothing when extract_data raised
EmittedSilent(ended) ==
    IF ended = "returned"
    THEN <<[signal |-> "extraction_completed", results |-> Some(results)]>>
    ELSE <<>>

\* ExtractionWorker.run, lines 44-46: the signal of the end of extract_data
Emitted(ended) ==
    IF ended = "returned"
    THEN <<[signal |-> "extraction_completed", results |-> Some(results)]>>
    ELSE <<[signal |-> "error_occurred", results |-> None]>>

\* extract_data has ended: the worker emits its signal, which is queued for
\* the main thread, and its thread finishes
WorkerEmit ==
    /\ window.extraction_worker = "running"
    /\ pc \in {"returned", "raised"}
    /\ window' = [window EXCEPT !.signals = @ \o Emitted(pc),
                                !.emitted = @ + Len(Emitted(pc)),
                                !.extraction_worker = "finished",
                                !.running = @ - 1]
    /\ UNCHANGED <<engine, inputs, pc, results, subject_list, subject_folders, pool,
                   extraction_data, completed, progress_log, table, run, first_table>>

\* MainWindow.extraction_completed (lines 455-499): the results are stored, the
\* controls enabled, and the export button enabled when the run succeeded
CompletedWindow(w, res) ==
    [w EXCEPT !.extraction_results = Some(res),
              !.start_btn = TRUE,
              !.export_btn = IF res.success THEN TRUE ELSE @,
              !.signals = Tail(@)]

\* the main thread handles the queued extraction_completed signal
ExtractionCompleted ==
    /\ window.signals # <<>>
    /\ Head(window.signals).signal = "extraction_completed"
    /\ window' = CompletedWindow(window, Head(window.signals).results[1])
    /\ UNCHANGED <<engine, inputs, pc, results, subject_list, subject_folders, pool,
                   extraction_data, completed, progress_log, table, run, first_table>>

\* the main thread handles the queued error_occurred signal:
\* MainWindow.extraction_error (lines 501-506)
ExtractionError ==
    /\ window.signals # <<>>
    /\ Head(window.signals).signal = "error_occurred"
    /\ window' = [window EXCEPT !.start_btn = TRUE, !.signals = Tail(@)]
    /\ UNCHANGED <<engine, inputs, pc, results, subject_list, subject_folders, pool,
                   extraction_data, completed, progress_log, table, run, first_table>>

\* MainWindow.new_session (lines 559-569), from the menu at any time; the input
\* fields it clears are filled in again before validate_inputs accepts a start
NewSession ==
    /\ window' = [window EXCEPT !.export_btn = FALSE, !.extraction_results = None]
    /\ UNCHANGED <<engine, inputs, pc, results, subject_list, subject_folders, pool,
                   extraction_data, completed, progress_log, table, run, first_table>>

\* MainWindow.export_to_excel (lines 508-537), on a click of the enabled export
\* button: without results it returns, without a chosen path it does nothing,
\* otherwise generate_excel_report writes the table of the stored results
ExportToExcel ==
    /\ window.export_btn
    /\ window.extraction_results # None
    /\ \E chosen \in BOOLEAN :
          IF ~chosen
          THEN UNCHANGED table
          ELSE LET processed_df == process_extracted_data(window.extraction_results[1].data,
                                                          extraction_rules)
               IN table' = IF processed_df.raised # None THEN None
                           ELSE Some(processed_df.value)
    /\ UNCHANGED <<engine, inputs, pc, results, subject_list, subject_folders, pool,
                   extraction_data, completed, progress_log, run, first_table, window>>

NextWindow ==
    \/ StartExtraction
    \/ RunStep
    \/ WorkerEmit
    \/ ExtractionCompleted
    \/ ExtractionError
    \/ NewSession
    \/ ExportToExcel

\* the Qt event loop delivers every queued signal to its slot, the worker
\* thread runs extract_data under the fairness of a run, and emits at its end
WindowFairness ==
    /\ Fairness
    /\ WF_window(WorkerEmit)
    /\ WF_window(ExtractionCompleted \/ ExtractionError)

SpecWindow == WindowInit /\ [][NextWindow]_vars /\ WindowFairness

\* ===================================================== resolution runs
\* Runs over root folders whose entries are directories and files with
\* requested, repeated, unrequested and empty ids, in any listing order.
FolderEntries ==
    { [name |-> FolderName(1), is_dir |-> TRUE, content |-> ContentText],
      [name |-> <<"1", "_", "M">>, is_dir |-> TRUE, content |-> ContentNoTarget],
      [name |-> FolderName(2), is_dir |-> TRUE, content |-> ContentText],
      [name |-> <<"1">>, is_dir |-> TRUE, content |-> ContentNoTarget],
      [name |-> <<"x", "_", "N">>, is_dir |-> TRUE, content |-> ContentText],
      [name |-> <<"_", "N">>, is_dir |-> TRUE, content |-> ContentText],
      [name |-> <<"2", "_", "F">>, is_dir |-> FALSE, content |-> ContentUnlistable] }

\* os.listdir: the entries have different names
Listings ==
    {l \in SeqsUpTo(FolderEntries, MaxEntries) :
        \A i, j \in 1..Len(l) : i # j => l[i].name # l[j].name}

FolderRoots ==
    {[exists |-> FALSE, listable |-> FALSE, entries |-> <<>>]}
    \cup {[exists |-> TRUE, listable |-> TRUE, entries |-> l] : l \in Listings}

FoldersInit ==
    /\ EngineInit(Some(1), TRUE)
    /\ subject_list_file \in SubjectListFiles
    /\ root \in FolderRoots
    /\ target_filename = [stem |-> "report", suffix |-> ".pdf"]
    /\ progress_callback = "None"
    /\ call = NoCall
    /\ RunInit
    /\ run = 1
    /\ first_table = None
    /\ window = NewWindow

SpecFolders == FoldersInit /\ [][Next]_vars

\* resolution has run to its end: the subject list was loaded, the root could
\* be listed and no callback raised
Resolved ==
    /\ pc \notin {"start", "resolve"}
    /\ subject_list_file.status = "ok"
    /\ progress_callback # "Raising"
    /\ root.exists => root.listable

FoundIds == {subject_folders[i].subject_id : i \in 1..Len(subject_folders)}

\* the positions of the request whose id has no discovered folder
MissingAt == {i \in 1..Len(subject_list) : subject_list[i] \notin FoundIds}

\* C16 (missing report): after resolution missing_subjects holds, in request
\* order and as often as requested, the requested ids without a discovered
\* folder: its k-th element is the id at the k-th such position of the request.
C16_MissingReport ==
    Resolved =>
       /\ Len(results.missing_subjects) = Cardinality(MissingAt)
       /\ \A i \in MissingAt :
             results.missing_subjects[Cardinality({j \in MissingAt : j <= i})] = subject_list[i]
       /\ \A k \in 1..Len(results.missing_subjects) : results.missing_subjects[k] \notin FoundIds

\* C16 witness: an id requested twice, with no folder among the entries of the
\* root, is reported missing twice
C16_Witness ==
    /\ Resolved
    /\ Len(results.missing_subjects) = 2
    /\ results.missing_subjects[1] = results.missing_subjects[2]
    /\ root.exists
    /\ root.entries # <<>>

\* C17 (one found triple per id): after resolution no two discovered triples
\* have the same subject id, total_subjects is at most the number of distinct
\* requested ids, and no two records of the run have the same subject id.
C17_OneTriplePerId ==
    Resolved =>
       /\ \A i, j \in 1..Len(subject_folders) :
             i # j => subject_folders[i].subject_id # subject_folders[j].subject_id
       /\ results.total_subjects <= Cardinality(Range(subject_list))
       /\ \A i, j \in 1..Len(results.data) :
             i # j => results.data[i].subject_id # results.data[j].subject_id

\* the entries of the root that get_subject_folders is said to take: the
\* directories whose parsed id is requested
Included(entry) ==
    /\ entry.is_dir
    /\ parse_folder_name(entry.name)[1] \in Range(subject_list)

\* C18 (resolver inclusion): after resolution the discovered triples are, in
\* listing order, exactly the entries of the root that are directories with a
\* requested id, each with its parsed id and name; a root that does not exist
\* or an empty request gives no triple, and the run over a root that does not
\* exist meets no exception: its only error is that of a run without folders.
C18_ResolverInclusion ==
    Resolved =>
       /\ \A k \in 1..Len(root.entries) :
             Included(root.entries[k])
             <=> \E i \in 1..Len(subject_folders) :
                    /\ subject_folders[i].folder_path = root.entries[k].name
                    /\ i = Cardinality({j \in 1..k : Included(root.entries[j])})
                    /\ <<subject_folders[i].subject_id, subject_folders[i].patient_name>>
                          = parse_folder_name(root.entries[k].name)
       /\ Len(subject_folders) =
             Cardinality({k \in 1..Len(root.entries) : Included(root.entries[k])})
       /\ (~root.exists \/ subject_list = <<>>) => subject_folders = <<>>
       /\ get_subject_folders(root, <<>>) = <<>>
       /\ (~root.exists /\ subject_list # <<>>) =>
             results.errors = ZeroSubjectAbort(EmptyResults, subject_list).errors

\* C18 witness: of two entries of the root one was taken and the other, a file
\* or a directory with an id that was not requested, was not
C18_Witness ==
    /\ Resolved
    /\ Len(root.entries) = 2
    /\ Len(subject_folders) = 1
    /\ \E k \in 1..2 : ~Included(root.entries[k]) /\ parse_folder_name(root.entries[k].name)[1] # <<>>

\* the positions of a string that hold no whitespace
Inked(s) == {i \in 1..Len(s) : s[i] \notin Whitespace}

\* s without its leading and trailing whitespace
Trimmed(s) ==
    IF Inked(s) = {} THEN <<>>
    ELSE SubSeq(s, CHOOSE i \in Inked(s) : \A j \in Inked(s) : i <= j,
                   CHOOSE i \in Inked(s) : \A j \in Inked(s) : j <= i)

\* the trimmed string s with every run of whitespace replaced by one space:
\* position i is kept when it holds no whitespace, and stands for a space when
\* it is the first whitespace of its run
Collapsed(s) ==
    LET t == Trimmed(s)
        kept == {i \in 1..Len(t) : t[i] \notin Whitespace \/ t[i - 1] \notin Whitespace}
        spaced == [i \in 1..Len(t) |-> IF t[i] \in Whitespace THEN " " ELSE t[i]]
    IN SelectIdx(spaced, kept, 1)

\* the parts of a folder name before and after its first '_'
Underscores(folder_name) == {i \in 1..Len(folder_name) : folder_name[i] = "_"}

FirstUnderscore(folder_name) ==
    CHOOSE i \in Underscores(folder_name) : \A j \in Underscores(folder_name) : i <= j

BeforeUnderscore(folder_name) == SubSeq(folder_name, 1, FirstUnderscore(folder_name) - 1)

AfterUnderscore(folder_name) ==
    SubSeq(folder_name, FirstUnderscore(folder_name) + 1, Len(folder_name))

SignLess(s) == IF s # <<>> /\ s[1] \in {"+", "-"} THEN SubSeq(s, 2, Len(s)) ELSE s

Points(s) == {i \in 1..Len(s) : s[i] = "."}

IsDecimal(s) ==
    /\ \A i \in 1..Len(SignLess(s)) : SignLess(s)[i] \in Digits \cup {"."}
    /\ Cardinality(Points(SignLess(s))) <= 1
    /\ \E i \in 1..Len(SignLess(s)) : SignLess(s)[i] \in Digits

\* the digits before and after the point of an unsigned decimal
IntegerDigits(b) ==
    IF Points(b) = {} THEN b ELSE SubSeq(b, 1, (CHOOSE i \in Points(b) : TRUE) - 1)

FractionDigits(b) ==
    IF Points(b) = {} THEN <<>> ELSE SubSeq(b, (CHOOSE i \in Points(b) : TRUE) + 1, Len(b))

\* the number written by a string of digits, read from the left
RECURSIVE Horner(_, _)
Horner(digits, acc) ==
    IF digits = <<>> THEN acc
    ELSE Horner(Tail(digits), 10 * acc + DigitValue(Head(digits)))

\* a fraction strictly greater than 0.50, read off its digits
AboveHalf(frac) ==
    /\ frac # <<>>
    /\ \/ frac[1] \in {"6", "7", "8", "9"}
       \/ frac[1] = "5" /\ \E i \in 2..Len(frac) : frac[i] # "0"

\* C20 (asymmetric age rounding): round_age of a decimal string that is not
\* negative returns its integer part, plus one when its fractional part is
\* strictly greater than 0.50; round_age of a string that is no decimal number
\* returns absent without raising.
C20_AsymmetricRounding ==
    (call.op = "age" /\ call.out # None) =>
       IF IsDecimal(call.arg)
       THEN call.arg[1] # "-" =>
               call.out[1] = Return(Some(Horner(IntegerDigits(SignLess(call.arg)), 0)
                                         + (IF AboveHalf(FractionDigits(SignLess(call.arg)))
                                            THEN 1 ELSE 0)))
       ELSE call.out[1] = Return(None)

\* two words that differ in the case of their letters at most
SameWord(a, b) ==
    /\ Len(a) = Len(b)
    /\ \A i \in 1..Len(a) : LowerChar(a[i]) = LowerChar(b[i])

\* C21 (gender mapping): map_turkish_gender gives 'Female' for a token that,
\* trimmed, is a word of the female vocabulary whatever the case of its letters,
\* 'Male' for one of the male vocabulary, and the trimmed token itself
\* otherwise; no word is in both vocabularies, and the transform applied to
\* its own result gives that result.
C21_GenderMapping ==
    (call.op = "gender" /\ call.out # None) =>
       /\ call.out[1].once =
             IF \E word \in female_terms : SameWord(Trimmed(call.arg), word)
             THEN <<"F", "e", "m", "a", "l", "e">>
             ELSE IF \E word \in male_terms : SameWord(Trimmed(call.arg), word)
             THEN <<"M", "a", "l", "e">>
             ELSE Trimmed(call.arg)
       /\ \A f \in female_terms, m \in male_terms : ~SameWord(f, m)
       /\ call.out[1].twice = call.out[1].once

\* C21 witness: a lower-case word of the female vocabulary with whitespace
\* around it was mapped, twice, to 'Female'
C21_Witness ==
    /\ call.op = "gender"
    /\ call.out # None
    /\ call.arg = <<" ", "b", "a", "y", "a", "n", " ", "\n">>
    /\ call.out[1].twice = <<"F", "e", "m", "a", "l", "e">>

\* the positions of a text that hold the letter of a pattern, in either case
Occurrences(text, pattern) ==
    {i \in 1..Len(text) : LowerChar(text[i]) = LowerChar(pattern.ch)}

\* C22 (pattern extraction is total): extract_with_pattern never raises; it
\* returns absent for a pattern that does not compile, for a pattern without a
\* group and for a text the pattern does not match, and what it returns
\* otherwise is a trimmed piece of the line after a match.
C22_ExtractionTotal ==
    (call.op = "extract" /\ call.out # None) =>
       /\ call.out[1].raised = None
       /\ call.arg.pattern.kind \in {"invalid", "plain", "empty"} => call.out[1].value = None
       /\ Occurrences(call.arg.text, call.arg.pattern) = {} => call.out[1].value = None
       /\ call.out[1].value # None =>
             /\ call.out[1].value[1] = Trimmed(call.out[1].value[1])
             /\ \E i \in Occurrences(call.arg.text, call.arg.pattern), n \in 0..Len(call.arg.text) :
                   /\ i + n <= Len(call.arg.text)
                   /\ \A j \in (i + 1)..(i + n) : call.arg.text[j] # "\n"
                   /\ call.out[1].value[1] = Trimmed(SubSeq(call.arg.text, i + 1, i + n))

\* the visit folders of a subject folder that hold the target file, and the
\* first of them in listing order
Matches(folder) ==
    {i \in 1..Len(folder.content.visits) :
        /\ folder.content.visits[i].is_dir
        /\ IsDigit(folder.content.visits[i].name)
        /\ folder.content.visits[i].file # None}

FirstMatch(folder) == CHOOSE i \in Matches(folder) : \A j \in Matches(folder) : i <= j

FirstPath(folder, target) ==
    [folder |-> folder.folder_path, visit |-> folder.content.visits[FirstMatch(folder)].name,
     filename |-> target]

\* C23 (first match wins): when several visit folders hold the target file the
\* record names the first of them as file_path, no other file is handed to an
\* extraction backend, and the record is the one the subject would get if the
\* first match were its only visit folder.
C23_FirstMatchWins ==
    (call.op = "subject" /\ call.out # None /\ Cardinality(Matches(call.arg.folder)) >= 2) =>
       /\ call.out[1].record.file_path = Some(FirstPath(call.arg.folder, call.arg.target))
       /\ call.out[1].reads \subseteq {FirstPath(call.arg.folder, call.arg.target)}
       /\ call.out[1].record.extraction_status = "Success" =>
             call.out[1].reads = {FirstPath(call.arg.folder, call.arg.target)}
       /\ call.out[1].record =
             process_single_subject(
                SubjectFolder(<< call.arg.folder.content.visits[FirstMatch(call.arg.folder)] >>),
                call.arg.target, call.arg.ocr, ExtractorOf(call.arg.ocr))

\* C23 witness: the second and third visit folder hold the target document
\* with different texts, and the text of the second was extracted
C23_Witness ==
    /\ call.op = "subject"
    /\ call.out # None
    /\ Matches(call.arg.folder) = {2, 3}
    /\ call.arg.folder.content.visits[2].file = Some(OtherFile)
    /\ call.arg.folder.content.visits[3].file = Some(TextFile)
    /\ call.out[1].record.extraction_status = "Success"
    /\ call.out[1].record.extracted_text = Some(<<"b">>)

\* the extensions of the target file names of the model that are, in either
\* case, an image extension or .pdf
SupportedSuffixes == {".pdf", ".PDF", ".png", ".PNG"}

\* C24 (unsupported file type): for a located target file whose extension is
\* neither an image extension nor .pdf in any case, no file is handed to an
\* extraction backend and the record is Failed with the unsupported-file-type
\* error, no text, and file_path set to the located file.
C24_UnsupportedType ==
    (/\ call.op = "subject"
     /\ call.out # None
     /\ Matches(call.arg.folder) # {}
     /\ call.arg.target.suffix \notin SupportedSuffixes)
    => /\ call.out[1].reads = {}
       /\ call.out[1].record.extraction_status = "Failed"
       /\ call.out[1].record.error = Some("Unsupported file type")
       /\ call.out[1].record.extracted_text = None
       /\ call.out[1].record.file_path = Some(FirstPath(call.arg.folder, call.arg.target))

\* C24 witness: a readable document named notes.TXT was located in the first
\* visit folder and its record is Failed
C24_Witness ==
    /\ call.op = "subject"
    /\ call.out # None
    /\ call.arg.target = [stem |-> "notes", suffix |-> ".TXT"]
    /\ call.arg.ocr
    /\ Matches(call.arg.folder) = {1}
    /\ call.arg.folder.content.visits[1].file = Some(TextFile)
    /\ call.out[1].record.extraction_status = "Failed"

\* the futures whose state or result a step changes
Touched == {i \in 1..Len(futures) : futures'[i] # futures[i]}

\* a step of a pool thread: it starts or finishes one submitted pipeline
WorkerStep == Len(futures') = Len(futures) /\ futures' # futures

\* C25 (read-only shared state): no step of a run writes max_workers,
\* tesseract_available, text_extractor or extraction_rules, and a step of a
\* pool thread writes the future of its own subject only: the futures of the
\* other subjects, the collected records, the results, the counter of
\* completions and the progress events are left as they are.
C25_ReadOnlyShared ==
    [][/\ UNCHANGED <<max_workers, tesseract_available, text_extractor, extraction_rules>>
       /\ WorkerStep =>
             /\ Cardinality(Touched) = 1
             /\ UNCHANGED <<extraction_data, results, completed, progress_log, subject_folders,
                            subject_list>>]_vars

\* C25 witness: with a pool of two threads one pipeline has finished with its
\* record while the pipeline of another subject is still running
C25_Witness ==
    /\ max_workers = 2
    /\ Cardinality(Running) = 1
    /\ Cardinality(Finished) = 1
    /\ \A i \in Finished : futures[i].result # None
    /\ \A i \in Running : futures[i].result = None

\* the probe finds the executable and 'eng' among its languages
OcrUsable(probe) ==
    /\ probe.version.raised = None
    /\ probe.languages.raised = None
    /\ "eng" \in probe.languages.value

\* C26 (OCR probing is non-fatal): the construction of the engine never
\* raises because of the OCR installation; when the executable is not found,
\* 'eng' is not installed or the probe fails in another way it ends with
\* tesseract_available false and no text extractor, and otherwise with
\* tesseract_available true.
C26_ProbingNonFatal ==
    (call.op = "construct" /\ call.out # None) =>
        LET built == call.out[1] IN
        /\ built.raised = None
        /\ IF OcrUsable(call.arg.probe)
           THEN built.tesseract_available = Some(TRUE)
           ELSE built.tesseract_available = Some(FALSE) /\ built.text_extractor = Some(None)

\* C27 (rule-set round trip): load_extraction_rules after
\* save_extraction_rules(rules) returns the same rules in the same order,
\* whatever the rules file held before, and after a second save it returns
\* exactly the rules of the second save.
C27_RuleRoundTrip ==
    (call.op = "rules" /\ call.out # None) =>
        /\ call.out[1].once = Return(call.arg.first)
        /\ call.out[1].twice = Return(call.arg.second)

\* C27 witness: over an existing rules file two rules are saved and loaded in
\* their order, then a shorter, different rule set is saved and loaded
C27_Witness ==
    /\ call.op = "rules"
    /\ call.out # None
    /\ call.arg.store.exists
    /\ Len(call.arg.first) = 2
    /\ call.arg.first[1] # call.arg.first[2]
    /\ Len(call.arg.second) = 1
    /\ call.arg.second[1] \notin {call.arg.first[1], call.arg.first[2]}
    /\ call.out[1].once.value = call.arg.first
    /\ call.out[1].twice.value = call.arg.second

\* extract_data has ended: it returned its result, or an exception left it
Ended == pc \in {"returned", "reported", "raised"}

\* what holds of the termination of a run: under fair scheduling every run of
\* an engine with a worker limit of at least 1 ends; it ends by an exception
\* only if the progress callback raised on the final event, and otherwise
\* returns its result; whenever it has ended, no submitted subject is pending
\* or running.
RunEnds ==
    (max_workers >= 1) =>
        /\ <>Ended
        /\ [](Ended => Pending \cup Running = {})
        /\ [](pc = "raised" => progress_callback = "Raising" /\ progress_log # <<>>
                                /\ progress_log[Len(progress_log)] = ProgressDone)

\* C28 (run termination): under fair scheduling of the workers every call of
\* extract_data on an engine with a worker limit of at least 1 eventually
\* returns a result, and once it has returned no submitted subject is pending
\* or running.
C28_RunTermination ==
    (max_workers >= 1) =>
        /\ <>(pc \in {"returned", "reported"})
        /\ [](pc \in {"returned", "reported"} => Pending \cup Running = {})

\* sequence a is the beginning of sequence b
IsPrefix(a, b) == Len(a) <= Len(b) /\ SubSeq(b, 1, Len(a)) = a

\* C29 (single-writer collection): a step that appends to extraction_data or
\* delivers a progress event is a step of the calling thread and not of a pool
\* thread: it changes no future; it delivers at most one event; and an append
\* is made in the loop over the completed futures, for one completion, after
\* the records collected before, none of which is lost.
C29_SingleWriter ==
    [][(extraction_data' # extraction_data \/ progress_log' # progress_log) =>
          /\ UNCHANGED <<futures, finish_order, ocr_calls>>
          /\ IsPrefix(progress_log, progress_log')
          /\ Len(progress_log') <= Len(progress_log) + 1
          /\ (extraction_data' # extraction_data) =>
                /\ pc = "collect"
                /\ completed' = completed + 1
                /\ IsPrefix(extraction_data, extraction_data')]_vars

\* C29 witness: the calling thread has collected a record and delivered its
\* progress event while the pipeline of another subject is still running
C29_Witness ==
    /\ pc = "collect"
    /\ progress_callback = "Reliable"
    /\ Len(extraction_data) = 1
    /\ completed = 1
    /\ Running # {}
    /\ progress_log[Len(progress_log)] = SubjectProgress(1, Len(subject_folders))

\* C30 (final progress event): when a call of extract_data with a progress
\* callback has ended, with a completed or an aborted result, the last
\* progress event it delivered has percentage 100.
C30_FinalProgressEvent ==
    (progress_callback # "None" /\ Ended) =>
        /\ progress_log # <<>>
        /\ progress_log[Len(progress_log)] = ProgressDone

\* C31 (record consistency): in every record that _process_single_subject
\* returned, extraction_status is 'Success' exactly when extracted_text is
\* non-empty and exactly when there is no error, and file_path is set exactly
\* when the folder could be listed and a visit folder holds the target file,
\* whether or not the extraction of that file succeeded.
C31_RecordConsistency ==
    \A i \in Finished :
        LET record == futures[i].result[1]
            folder == subject_folders[i]
        IN /\ (record.extraction_status = "Success") <=> Truthy(record.extracted_text)
           /\ (record.extraction_status = "Success") <=> (record.error = None)
           /\ record.extraction_status \in {"Success", "Failed"}
           /\ (record.file_path # None) <=> (folder.content.listable /\ Holding(folder) # {})

\* C31 witness: of two returned records one is a success and the other names
\* the file it located although no text could be extracted from it
C31_Witness ==
    /\ Finished = {1, 2}
    /\ \E i, j \in Finished :
          /\ futures[i].result[1].extraction_status = "Success"
          /\ futures[j].result[1].extraction_status = "Failed"
          /\ futures[j].result[1].file_path # None
          /\ futures[j].result[1].error = Some("Failed to extract text from file")

\* the messages of the exceptions a run can raise inside extract_data before
\* its aggregation has finished
RunLevelMessages ==
    {CallbackError, "cannot read subject list", "cannot list root folder",
     "max_workers must be greater than 0"}

\* the handler of lines 140-141 has caught an exception of this run
Caught ==
    \E k \in 1..Len(results.errors), e \in RunLevelMessages :
        results.errors[k] = "Extraction error: " \o e

\* C32 (run-level exceptions become aborted results): once an exception has
\* been raised inside extract_data before its aggregation finished, the run
\* has success false and the message of the exception among its errors, and it
\* does not end with an exception leaving extract_data.
C32_RunLevelAbort ==
    Caught => (~results.success /\ pc # "raised")

\* C33 (the OCR availability probes agree): for every state of the OCR
\* installation check_tesseract_availability reports available exactly when
\* the construction of a TextExtractor succeeds, and the main window's
\* tesseract_available is the engine's tesseract_available.
C33_ProbesAgree ==
    (call.op = "availability" /\ call.out # None) =>
        LET out == call.out[1] IN
        /\ out.status.raised = None
        /\ out.status.value.available <=> (out.extractor.raised = None)
        /\ out.window.raised = None
        /\ out.engine.raised = None
        /\ Some(out.window.value) = out.engine.tesseract_available

\* C34 (export guard): whenever the export button of the main window is
\* enabled, the stored extraction_results are the results of a run with
\* success true.
C34_ExportGuard ==
    window.export_btn =>
        /\ window.extraction_results # None
        /\ window.extraction_results[1].success

====
